---- MODULE Spec2Model ----
(***************************************************************************)
(* Live Activity update delivery engine of petl-live-la.                   *)
(*                                                                         *)
(*   - Token signer and direct push client   src/lib/apns-client.ts        *)
(*   - Session store (in-memory and KV)      src/lib/session-store.ts      *)
(*   - Provider push client                  src/lib/onesignal.ts          *)
(*   - Delivery orchestrators (cron GETs)    src/app/api/cron/...,         *)
(*                                           src/unnamed/part_009          *)
(*                                                                         *)
(* The JavaScript run-to-completion rule is kept: one action is the code   *)
(* between two awaits, so handlers interleave only where the source        *)
(* awaits.  The clock counts ticks of TickMs milliseconds.                 *)
(***************************************************************************)
EXTENDS Integers, Sequences, FiniteSets, TLC

(***************************************************************************)
(* Bounds of the model.                                                    *)
(***************************************************************************)
NumCallers == 2
MaxSignOps == 2
MaxNow == 3
MaxSignerNow == 12
\* the cap of the page counter of the directory loop in the guard of
\* CronDirectoryPage; the loop of the code stops at 10 pages
MaxPages == 12

(***************************************************************************)
(* Time.  One tick is five minutes, the finest interval the code compares  *)
(* against (JWT buffer 300 s, wake-up age 5 min, thresholds 10/15 min).    *)
(***************************************************************************)
TickMs == 5 * 60 * 1000
TickSec == 5 * 60

VARIABLES
  now,              \* Date.now(), in ticks
  storeDraft,       \* which draft of session-store.ts is deployed: "memory" or "kv"
  env,              \* process.env: which of the other credentials are set
  osCall,           \* the running call of callOneSignal (onesignal.ts) and its result
  la,               \* the running request of the /api/la/start, update or end handler
  apnsKey,          \* process.env.APNS_KEY: "absent", "nopem", "pem"
  jwtToken,         \* APNsClient.jwtToken: 0 is null, else the id of the signing that made it
  jwtTokenExpiry,   \* APNsClient.jwtTokenExpiry, seconds
  jwtTokenPromise,  \* APNsClient.jwtTokenPromise: 0 is null, else a promise id
  promises,         \* the signing operations (the async IIFE of generateJWT), by id
  caller,           \* the callers of generateJWT
  sessions,         \* session-store.ts, in-memory draft: the Map `sessions`
  memCall,          \* the last call of an in-memory store function and what it returned
  kvData,           \* session-store.ts, KV draft: the records under la:activity:<id>
  kvIndex,          \* session-store.ts, KV draft: the set la:index
  proc,             \* the running calls of the async (KV) store functions
  cron,             \* the cron GET handler (delivery orchestrator) and what it has done
  lastErrorAt       \* onesignal.ts: the Map `lastErrorAt`, by route; -1 is no entry

signerVars == <<apnsKey, jwtToken, jwtTokenExpiry, jwtTokenPromise, promises, caller>>
memVars == <<sessions, memCall>>
kvVars == <<kvData, kvIndex, proc>>
nonSignerVars == <<memVars, kvVars>>
cronVars == <<cron, lastErrorAt>>
extVars == <<env, osCall, la>>
vars == <<now, cronVars, storeDraft, extVars, signerVars, nonSignerVars>>

(***************************************************************************)
(* Values.                                                                 *)
(***************************************************************************)
Acts == {"A1", "A2"}
\* the handlers whose store calls are followed: a request handler and the cron handler
Procs == {"h1", "cron"}

StoreDrafts == {"memory", "kv"}
StoreTokens == {"", "T1"}

\* the request handlers that call the store on their own
Handlers == {"h1"}

\* pushToken values by the cases the code distinguishes: missing or blank,
\* shorter than 32 characters, a full token
Tokens == {"", "short", "T1"}

\* a pushToken of white space only
Blank == "  "

TokLen(tok) == IF tok = "" THEN 0 ELSE IF tok = Blank THEN 2 ELSE IF tok = "short" THEN 8 ELSE 64

\* pushToken.trim()
Trim(tok) == IF tok = Blank THEN "" ELSE tok

\* the validation of the loop without the trim: only a missing token fails
InvalidTokenUntrimmed(tok) == tok = ""

\* `!pushToken || !pushToken.trim()` (part_009 line 67)
InvalidToken(tok) == tok = "" \/ Trim(tok) = ""

PlayerIds == {"P1"}

\* ActivitySession['state'] snapshots (watts in tenths of a watt)
Charging == [soc |-> 90, watts |-> 78, timeToFullMinutes |-> 14, isCharging |-> TRUE]
Stopped == [soc |-> 100, watts |-> 0, timeToFullMinutes |-> 0, isCharging |-> FALSE]
StateSet == {Charging, Stopped}

\* staleThresholdMs arguments: the two defaults of the store functions
DefaultActiveThresholdMs == 15 * 60 * 1000
DefaultCleanupThresholdMs == 10 * 60 * 1000
Thresholds == {DefaultCleanupThresholdMs, DefaultActiveThresholdMs}

NoSession == [activityId |-> "none"]

Session(a, pl, tok, st, t) ==
  [activityId |-> a, playerId |-> pl, pushToken |-> tok, state |-> st, lastUpdated |-> t]

\* (now - session.lastUpdated) in milliseconds, for `now` read at tick t
AgeMs(t, session) == (t - session.lastUpdated) * TickMs

Put(f, a, v) == [x \in DOMAIN f \cup {a} |-> IF x = a THEN v ELSE f[x]]
Drop(f, a) == [x \in DOMAIN f \ {a} |-> f[x]]
Empty == [x \in {} |-> NoSession]

\* no request body has been built
NoPayload == [event |-> "none"]

\* no call of callOneSignal is running
IdleCall ==
  [pc |-> "idle", route |-> "none", payload |-> NoPayload, status |-> 0, text |-> "",
   logged |-> FALSE, result |-> [ok |-> FALSE, status |-> 0, error |-> "none", details |-> "none"]]

\* no request of a session lifecycle endpoint is being handled
IdleLa ==
  [op |-> "none", pc |-> "idle", secret |-> "", header |-> "", aid |-> "none", player |-> "",
   tok |-> "", st |-> NoPayload, status |-> 0, ok |-> FALSE, tag |-> "none"]

\* the outcomes of an auxiliary request (silent push, tagging): accepted,
\* refused by the provider, or thrown (fetch or the parse of the body)
AuxOutcomes == {"ok", "failed", "threw"}

\* a handler that is running no store call
IdleProc ==
  [op |-> "idle", pc |-> "idle", aid |-> "none", st |-> Stopped, val |-> NoSession,
   th |-> 0, t0 |-> 0, todo |-> {}, active |-> {}, removed |-> {},
   ret |-> "none", found |-> FALSE, wrote |-> FALSE, failed |-> FALSE]

Callers == 1..NumCallers
KeyKinds == {"absent", "nopem", "pem"}

\* the drafts of the cron GET handler: provider only (update-live-activities/route.ts),
\* direct push with provider fallback (part_009), timestamp refreshing (push-updates/route.ts)
CronDrafts == {"provider", "dual", "refresh"}

\* the routes of callOneSignal, the keys of `lastErrorAt`
Routes == {"update", "end"}

\* per activity: the calls made to the provider client (end, update), to the direct
\* client (direct) and to the notifications API (wake)
NoCalls ==
  [end |-> 0, update |-> 0, direct |-> 0, wake |-> 0, recorded |-> 0, directError |-> "none",
   payload |-> NoPayload, content |-> NoPayload]

NoSummary == [successful |-> 0, failed |-> 0, apnsCount |-> 0, onesignalCount |-> 0]

\* a cron handler of draft d that has not been requested yet
IdleCron(d) ==
  [draft |-> d, pc |-> "idle", secret |-> "", header |-> "", status |-> 0, creds |-> TRUE,
   t0 |-> 0, start |-> Empty,
   listed |-> {}, todo |-> {}, cur |-> "none", ageSeconds |-> 0, results |-> Empty,
   calls |-> [a \in Acts |-> NoCalls], directOk |-> {}, providerOk |-> {},
   kvFailed |-> FALSE, aux |-> "none", offset |-> 0, pages |-> 0, summary |-> NoSummary]

(***************************************************************************)
(* Token signer: APNsClient.generateJWT (async draft).                     *)
(***************************************************************************)
\* the variables of process.env read by loadConfig and callOneSignal, as
\* present (TRUE) or unset (FALSE); APNS_KEY is the variable apnsKey
EnvNames == {"APNS_KEY_ID", "APNS_TEAM_ID", "APNS_BUNDLE_ID", "ONESIGNAL_APP_ID", "ONESIGNAL_REST_API_KEY"}

FullEnv == [n \in EnvNames |-> TRUE]

\* loadConfig (variant: the bundle id is required as well)
configNeedsBundleId ==
  IF apnsKey = "absent" \/ ~env["APNS_KEY_ID"] \/ ~env["APNS_TEAM_ID"] \/ ~env["APNS_BUNDLE_ID"]
  THEN "null" ELSE "set"

\* loadConfig: config is null when the key id, the team id or the key is
\* missing (line 61); the bundle id and the environment have defaults
config ==
  IF apnsKey = "absent" \/ ~env["APNS_KEY_ID"] \/ ~env["APNS_TEAM_ID"]
  THEN "null" ELSE "set"

isConfigured == config # "null"

NowSec == now * TickSec

\* line 90: reuse the token if still valid, with a 5 minute buffer
JwtBufferSec == 300
JwtLifetimeSec == 3600

\* line 90 without the buffer: the token is reused up to its expiry
CacheValidToExpiry == jwtToken # 0 /\ NowSec < jwtTokenExpiry

CacheValid == jwtToken # 0 /\ NowSec < jwtTokenExpiry - JwtBufferSec

\* lines 115-118 without the check: any key text goes on to the import
PemCheckSkipped == FALSE

\* lines 115-118: the key text has no BEGIN PRIVATE KEY header
PemCheckFails == apnsKey = "nopem"

\* line 95 without the in-flight check: every cache miss signs on its own
JoinInFlightNever == FALSE

JoinInFlight == jwtTokenPromise # 0

\* the result value of sendLiveActivityUpdate: { success, responseId?, error? };
\* the error string is kept by its parts (message, or status and body text)
NoError == [kind |-> "none", status |-> 0, body |-> ""]

NoResult == [success |-> FALSE, responseId |-> "", error |-> NoError]

IdleCaller ==
  [pc |-> "idle", p |-> 0, token |-> 0, err |-> "none", cold |-> FALSE, epoch |-> 0,
   requests |-> 0, status |-> 0, apnsId |-> "", text |-> "unread", result |-> NoResult]

Settled(p) == promises[p].stage \in {"fulfilled", "rejected"}

\* number of signing operations that have completed
SignsCompleted == Cardinality({p \in 1..Len(promises) : Settled(p)})

\* generateJWT up to its first await (lines 83-134, 165)
GenerateJWT(c) ==
  /\ caller[c].pc = "idle"
  /\ LET me == [caller[c] EXCEPT !.cold = ~CacheValid, !.epoch = SignsCompleted] IN
     IF ~isConfigured
     THEN /\ caller' = [caller EXCEPT ![c] = [me EXCEPT !.pc = "threw", !.err = "config", !.cold = FALSE]]
          /\ UNCHANGED <<jwtTokenPromise, promises>>
     ELSE IF CacheValid
     THEN /\ caller' = [caller EXCEPT ![c] = [me EXCEPT !.pc = "returned", !.token = jwtToken]]
          /\ UNCHANGED <<jwtTokenPromise, promises>>
     ELSE IF JoinInFlight
     THEN /\ caller' = [caller EXCEPT ![c] = [me EXCEPT !.pc = "wait", !.p = jwtTokenPromise]]
          /\ UNCHANGED <<jwtTokenPromise, promises>>
     ELSE IF PemCheckFails
     THEN /\ caller' = [caller EXCEPT ![c] = [me EXCEPT !.pc = "threw", !.err = "config"]]
          /\ UNCHANGED <<jwtTokenPromise, promises>>
     ELSE /\ Len(promises) < MaxSignOps
          /\ promises' = Append(promises, [stage |-> "import", iat |-> NowSec, epoch |-> SignsCompleted, cause |-> "none"])
          /\ jwtTokenPromise' = Len(promises) + 1
          /\ caller' = [caller EXCEPT ![c] = [me EXCEPT !.pc = "wait", !.p = Len(promises) + 1]]
  /\ UNCHANGED <<apnsKey, jwtToken, jwtTokenExpiry>>

\* a caller of sendLiveActivityUpdate reaches `await this.generateJWT()` (line 200)
CallerCalls(c) ==
  /\ GenerateJWT(c)
  /\ UNCHANGED <<now, cronVars, storeDraft, extVars, nonSignerVars>>

\* await importPKCS8(privateKey, 'ES256') settles (line 137; catch at 157-162)
ImportKeySettles(p, ok) ==
  /\ p \in 1..Len(promises)
  /\ promises[p].stage = "import"
  /\ IF ok
     THEN /\ promises' = [promises EXCEPT ![p].stage = "sign"]
          /\ UNCHANGED jwtTokenPromise
     ELSE /\ promises' = [promises EXCEPT ![p].stage = "rejected", ![p].cause = "import"]
          /\ jwtTokenPromise' = 0
  /\ UNCHANGED <<now, cronVars, storeDraft, extVars, nonSignerVars, apnsKey, jwtToken, jwtTokenExpiry, caller>>

\* the signing settles (variant: the catch does not clear jwtTokenPromise)
SignSettlesKeepsPromise(p, ok) ==
  /\ p \in 1..Len(promises)
  /\ promises[p].stage = "sign"
  /\ IF ok
     THEN /\ promises' = [promises EXCEPT ![p].stage = "fulfilled"]
          /\ jwtToken' = p
          /\ jwtTokenExpiry' = promises[p].iat + JwtLifetimeSec
          /\ jwtTokenPromise' = 0
     ELSE /\ promises' = [promises EXCEPT ![p].stage = "rejected", ![p].cause = "sign"]
          /\ UNCHANGED <<jwtToken, jwtTokenExpiry, jwtTokenPromise>>
  /\ UNCHANGED <<now, cronVars, storeDraft, extVars, nonSignerVars, apnsKey, caller>>

\* await new SignJWT(...).sign(key) settles (lines 140-156; catch at 157-162)
SignSettles(p, ok) ==
  /\ p \in 1..Len(promises)
  /\ promises[p].stage = "sign"
  /\ IF ok
     THEN /\ promises' = [promises EXCEPT ![p].stage = "fulfilled"]
          /\ jwtToken' = p
          /\ jwtTokenExpiry' = promises[p].iat + JwtLifetimeSec
     ELSE /\ promises' = [promises EXCEPT ![p].stage = "rejected", ![p].cause = "sign"]
          /\ UNCHANGED <<jwtToken, jwtTokenExpiry>>
  /\ jwtTokenPromise' = 0
  /\ UNCHANGED <<now, cronVars, storeDraft, extVars, nonSignerVars, apnsKey, caller>>

\* a rejection that is swallowed: the awaiting caller gets undefined
OutcomeSwallowsFailure(c, p) ==
  [caller[c] EXCEPT !.pc = "returned", !.token = IF promises[p].stage = "fulfilled" THEN p ELSE 0]

\* the outcome a caller awaiting promise p gets: the promise's value or its rejection
Outcome(c, p) ==
  IF promises[p].stage = "fulfilled"
  THEN [caller[c] EXCEPT !.pc = "returned", !.token = p]
  ELSE [caller[c] EXCEPT !.pc = "threw", !.err = "sign"]

\* a caller awaiting the returned promise resumes once it has settled
CallerResumes(c) ==
  /\ caller[c].pc = "wait"
  /\ Settled(caller[c].p)
  /\ caller' = [caller EXCEPT ![c] = Outcome(c, caller[c].p)]
  /\ UNCHANGED <<now, cronVars, storeDraft, extVars, nonSignerVars, apnsKey, jwtToken, jwtTokenExpiry, jwtTokenPromise, promises>>

\* the caller is done with the result and may call again
CallerLeaves(c) ==
  /\ caller[c].pc \in {"returned", "threw"}
  /\ caller' = [caller EXCEPT ![c] = IdleCaller]
  /\ UNCHANGED <<now, cronVars, storeDraft, extVars, nonSignerVars, apnsKey, jwtToken, jwtTokenExpiry, jwtTokenPromise, promises>>

(***************************************************************************)
(* sendLiveActivityUpdate (apns-client.ts lines 188-266).  A caller record *)
(* follows one call: the token from generateJWT, the one fetch, the        *)
(* response (status, apns-id header, body text) and the value returned.    *)
(***************************************************************************)
Statuses == {200, 204, 410}

\* value of response.headers.get('apns-id'); "" is a response without it
ApnsIds == {"", "id-1"}

BodyText == "BadDeviceToken"

\* response.ok of the fetch API: the status is in the range 200-299
ResponseOkOnly200(status) == status = 200

ResponseOk(status) == status >= 200 /\ status <= 299

ErrorMessage(msg) == [kind |-> msg, status |-> 0, body |-> ""]

\* `APNs error: ${response.status} - ${errorText}`
ApnsError(status, errorText) == [kind |-> "APNs error", status |-> status, body |-> errorText]

Returned(cr, result) == [cr EXCEPT !.pc = "resulted", !.result = result]

CaughtRethrows(cr, msg) == [cr EXCEPT !.pc = "propagated", !.err = msg]

\* the catch block of lines 259-265
Caught(cr, msg) ==
  Returned(cr, [success |-> FALSE, responseId |-> "", error |-> ErrorMessage(msg)])

NonOkRetries(cr, status, id) ==
  IF cr.requests < 2
    THEN [cr EXCEPT !.requests = @ + 1]
    ELSE [cr EXCEPT !.pc = "text", !.status = status, !.apnsId = id]

\* the else branch up to await response.text()
NonOk(cr, status, id) == [cr EXCEPT !.pc = "text", !.status = status, !.apnsId = id]

\* the call up to await this.generateJWT()
SendLiveActivityUpdate(c) ==
  /\ caller[c].pc = "idle"
  /\ IF ~isConfigured
       THEN /\ caller' = [caller EXCEPT ![c] =
                 Returned(@, [success |-> FALSE, responseId |-> "",
                              error |-> ErrorMessage("APNs not configured - missing credentials")])]
            /\ UNCHANGED <<apnsKey, jwtToken, jwtTokenExpiry, jwtTokenPromise, promises>>
       ELSE GenerateJWT(c)
  /\ UNCHANGED <<now, cronVars, storeDraft, extVars, nonSignerVars>>

\* generateJWT returned a token: the request is built and fetch is called
SendFetches(c) ==
  /\ caller[c].pc = "returned"
  /\ caller' = [caller EXCEPT ![c] = [@ EXCEPT !.pc = "fetch", !.requests = @ + 1]]
  /\ UNCHANGED <<now, cronVars, storeDraft, extVars, nonSignerVars, apnsKey, jwtToken, jwtTokenExpiry, jwtTokenPromise, promises>>

\* generateJWT threw inside the try block
SendCatches(c) ==
  /\ caller[c].pc = "threw"
  /\ caller' = [caller EXCEPT ![c] = Caught(@, caller[c].err)]
  /\ UNCHANGED <<now, cronVars, storeDraft, extVars, nonSignerVars, apnsKey, jwtToken, jwtTokenExpiry, jwtTokenPromise, promises>>

\* fetch resolves with a response
SendResponds(c, status, id) ==
  /\ caller[c].pc = "fetch"
  /\ caller' = [caller EXCEPT ![c] =
       IF ResponseOk(status)
         THEN Returned([@ EXCEPT !.status = status, !.apnsId = id],
                       [success |-> TRUE,
                        responseId |-> IF id = "" THEN "unknown" ELSE id,
                        error |-> NoError])
         ELSE NonOk(@, status, id)]
  /\ UNCHANGED <<now, cronVars, storeDraft, extVars, nonSignerVars, apnsKey, jwtToken, jwtTokenExpiry, jwtTokenPromise, promises>>

\* fetch rejects (connection refused, reset, ...)
SendFetchThrows(c) ==
  /\ caller[c].pc = "fetch"
  /\ caller' = [caller EXCEPT ![c] = Caught(@, "fetch failed")]
  /\ UNCHANGED <<now, cronVars, storeDraft, extVars, nonSignerVars, apnsKey, jwtToken, jwtTokenExpiry, jwtTokenPromise, promises>>

\* await response.text() settles; it may reject while the body is read
SendReadsBody(c, ok) ==
  /\ caller[c].pc = "text"
  /\ caller' = [caller EXCEPT ![c] =
       IF ok
         THEN Returned([@ EXCEPT !.text = BodyText],
                       [success |-> FALSE, responseId |-> "",
                        error |-> ApnsError(caller[c].status, BodyText)])
         ELSE Caught([@ EXCEPT !.text = "threw"], "body failed")]
  /\ UNCHANGED <<now, cronVars, storeDraft, extVars, nonSignerVars, apnsKey, jwtToken, jwtTokenExpiry, jwtTokenPromise, promises>>

\* the caller has the result value and may call again
SendReturns(c) ==
  /\ caller[c].pc = "resulted"
  /\ caller' = [caller EXCEPT ![c] = IdleCaller]
  /\ UNCHANGED <<now, cronVars, storeDraft, extVars, nonSignerVars, apnsKey, jwtToken, jwtTokenExpiry, jwtTokenPromise, promises>>

(***************************************************************************)
(* Session store, in-memory draft (session-store.ts lines 22-128).  The    *)
(* functions are synchronous: each call is one step.                       *)
(***************************************************************************)
\* storeActivity that keeps the push token of the session it finds
MemStoreActivityKeepsToken(a, pl, tok, st) ==
  /\ sessions' = Put(sessions, a,
                     Session(a, pl, IF a \in DOMAIN sessions THEN sessions[a].pushToken ELSE tok,
                             st, now))
  /\ memCall' = [fn |-> "storeActivity", aid |-> a, t |-> now, pl |-> pl, tok |-> tok, st |-> st]
  /\ UNCHANGED <<now, cronVars, storeDraft, extVars, signerVars, kvVars>>

\* storeActivity
MemStoreActivity(a, pl, tok, st) ==
  /\ sessions' = Put(sessions, a, Session(a, pl, tok, st, now))
  /\ memCall' = [fn |-> "storeActivity", aid |-> a, t |-> now, pl |-> pl, tok |-> tok, st |-> st]
  /\ UNCHANGED <<now, cronVars, storeDraft, extVars, signerVars, kvVars>>

\* updateActivityState that leaves the timestamp as it was
UpdatedSessionsKeepsTime(a, st) ==
  IF a \in DOMAIN sessions THEN [sessions EXCEPT ![a].state = st] ELSE sessions

\* updateActivityState that writes a fresh record with the new state
UpdatedSessionsDropsToken(a, st) ==
  IF a \in DOMAIN sessions
  THEN [sessions EXCEPT ![a] = Session(a, "", "", st, now)]
  ELSE sessions

\* what updateActivityState leaves in the Map
UpdatedSessions(a, st) ==
  IF a \in DOMAIN sessions
  THEN [sessions EXCEPT ![a].state = st, ![a].lastUpdated = now]
  ELSE sessions

\* updateActivityState
MemUpdateActivityState(a, st) ==
  /\ sessions' = UpdatedSessions(a, st)
  /\ memCall' = [fn |-> "updateActivityState", aid |-> a, t |-> now, st |-> st,
                 existed |-> a \in DOMAIN sessions,
                 ret |-> a \in DOMAIN sessions,
                 unchanged |-> sessions' = sessions]
  /\ UNCHANGED <<now, cronVars, storeDraft, extVars, signerVars, kvVars>>

\* getActivity
MemGetActivity(a) ==
  /\ memCall' = [fn |-> "getActivity", aid |-> a, t |-> now,
                 ret |-> IF a \in DOMAIN sessions THEN sessions[a] ELSE NoSession]
  /\ UNCHANGED <<now, cronVars, storeDraft, extVars, signerVars, kvVars, sessions>>

\* removeActivity (variant: the whole Map is cleared)
MemRemoveActivityClears(a) ==
  /\ sessions' = Empty
  /\ memCall' = [fn |-> "removeActivity", aid |-> a, t |-> now, removed |-> a \in DOMAIN sessions]
  /\ UNCHANGED <<now, cronVars, storeDraft, extVars, signerVars, kvVars>>

\* removeActivity: `removed` is the result of sessions.delete (line 93)
MemRemoveActivity(a) ==
  /\ sessions' = Drop(sessions, a)
  /\ memCall' = [fn |-> "removeActivity", aid |-> a, t |-> now, removed |-> a \in DOMAIN sessions]
  /\ UNCHANGED <<now, cronVars, storeDraft, extVars, signerVars, kvVars>>

\* the filter of getAllActiveActivities (line 106)
IsActive(t, session, th) == AgeMs(t, session) < th

\* the test with `>`: a session exactly as old as the threshold is not stale
IsStaleStrictly(t, session, th) == AgeMs(t, session) > th

\* the test of cleanupStaleActivities (lines 120, 330) and of the KV scan (line 303)
IsStale(t, session, th) == AgeMs(t, session) >= th

\* what getAllActiveActivities (in-memory) leaves in the Map: it only filters
SessionsAfterGetAllActive(th) == sessions

\* getAllActiveActivities
MemGetAllActiveActivities(th) ==
  /\ sessions' = SessionsAfterGetAllActive(th)
  /\ memCall' = [fn |-> "getAllActiveActivities", th |-> th, t |-> now,
                 ret |-> {sessions[a] : a \in {x \in DOMAIN sessions : IsActive(now, sessions[x], th)}}]
  /\ UNCHANGED <<now, cronVars, storeDraft, extVars, signerVars, kvVars>>

\* what cleanupStaleActivities leaves in the Map
SessionsAfterCleanup(th) ==
  [a \in {x \in DOMAIN sessions : ~IsStale(now, sessions[x], th)} |-> sessions[a]]

\* cleanupStaleActivities
MemCleanupStaleActivities(th) ==
  /\ sessions' = SessionsAfterCleanup(th)
  /\ memCall' = [fn |-> "cleanupStaleActivities", th |-> th, t |-> now,
                 ret |-> Cardinality(DOMAIN sessions) - Cardinality(DOMAIN sessions')]
  /\ UNCHANGED <<now, cronVars, storeDraft, extVars, signerVars, kvVars>>

(***************************************************************************)
(* Session store, KV draft (session-store.ts lines 169-341).  Every        *)
(* `await kv.x(...)` is one step: the command takes effect in the store    *)
(* and the function continues to its next await.  A command may fail       *)
(* (ok = FALSE) and then the function's catch block runs.                  *)
(***************************************************************************)
\* a call starts in handler p
Begin(p, rec) == [proc EXCEPT ![p] = rec]

Done(p, ret) == [proc EXCEPT ![p].pc = "done", ![p].ret = ret]

\* storeActivity, up to `await kv.set` (lines 182-198)
KvStoreActivity(p, a, pl, tok, st) ==
  /\ proc[p].pc = "idle"
  /\ proc' = Begin(p, [IdleProc EXCEPT !.op = "storeActivity", !.pc = "set", !.aid = a,
                                       !.t0 = now, !.val = Session(a, pl, tok, st, now)])
  /\ UNCHANGED <<now, cronVars, storeDraft, extVars, signerVars, memVars, kvData, kvIndex>>

\* updateActivityState, up to `await kv.get` (lines 239-244)
KvUpdateActivityState(p, a, st) ==
  /\ proc[p].pc = "idle"
  /\ proc' = Begin(p, [IdleProc EXCEPT !.op = "updateActivityState", !.pc = "get", !.aid = a, !.st = st])
  /\ UNCHANGED <<now, cronVars, storeDraft, extVars, signerVars, memVars, kvData, kvIndex>>

\* getActivity, up to `await kv.get` (lines 263-265)
KvGetActivity(p, a) ==
  /\ proc[p].pc = "idle"
  /\ proc' = Begin(p, [IdleProc EXCEPT !.op = "getActivity", !.pc = "get", !.aid = a])
  /\ UNCHANGED <<now, cronVars, storeDraft, extVars, signerVars, memVars, kvData, kvIndex>>

\* removeActivity, up to `await kv.del` (lines 276-278)
KvRemoveActivity(p, a) ==
  /\ proc[p].pc = "idle"
  /\ proc' = Begin(p, [IdleProc EXCEPT !.op = "removeActivity", !.pc = "del", !.aid = a])
  /\ UNCHANGED <<now, cronVars, storeDraft, extVars, signerVars, memVars, kvData, kvIndex>>

\* getAllActiveActivities, up to `await kv.smembers` (lines 291-294)
KvGetAllActiveActivities(p, th) ==
  /\ proc[p].pc = "idle"
  /\ proc' = Begin(p, [IdleProc EXCEPT !.op = "getAllActiveActivities", !.pc = "smembers",
                                       !.th = th, !.t0 = now])
  /\ UNCHANGED <<now, cronVars, storeDraft, extVars, signerVars, memVars, kvData, kvIndex>>

\* cleanupStaleActivities, up to `await kv.smembers` (lines 322-325)
KvCleanupStaleActivities(p, th) ==
  /\ proc[p].pc = "idle"
  /\ proc' = Begin(p, [IdleProc EXCEPT !.op = "cleanupStaleActivities", !.pc = "smembers",
                                       !.th = th, !.t0 = now])
  /\ UNCHANGED <<now, cronVars, storeDraft, extVars, signerVars, memVars, kvData, kvIndex>>

\* kv.set(getActivityKey(activityId), session) (lines 198, 248)
KvSet(p, ok) ==
  /\ proc[p].pc = "set"
  /\ IF ok
     THEN /\ kvData' = Put(kvData, proc[p].aid, proc[p].val)
          /\ proc' = IF proc[p].op = "storeActivity"
                     THEN [proc EXCEPT ![p].pc = "sadd", ![p].wrote = TRUE]
                     ELSE [proc EXCEPT ![p].pc = "done", ![p].ret = "true", ![p].wrote = TRUE]
     ELSE /\ kvData' = kvData
          /\ proc' = [Done(p, IF proc[p].op = "storeActivity" THEN "throw" ELSE "false")
                        EXCEPT ![p].failed = TRUE]
  /\ UNCHANGED <<now, cronVars, storeDraft, extVars, signerVars, memVars, kvIndex>>

\* kv.sadd(KV_INDEX_KEY, activityId) (line 201)
KvSadd(p, ok) ==
  /\ proc[p].pc = "sadd"
  /\ IF ok
     THEN /\ kvIndex' = kvIndex \cup {proc[p].aid}
          /\ proc' = Done(p, "void")
     ELSE /\ kvIndex' = kvIndex
          /\ proc' = [Done(p, "throw") EXCEPT ![p].failed = TRUE]
  /\ UNCHANGED <<now, cronVars, storeDraft, extVars, signerVars, memVars, kvData>>

\* the record updateActivityState writes back when it found none: it writes nothing
\* (variant: create the session from the bare state)
UpsertOnMissing(p) == [proc EXCEPT ![p].pc = "set",
                                   ![p].val = Session(proc[p].aid, "", "", proc[p].st, now)]

\* updateActivityState when kv.get found no session (lines 252-253)
UpdateOnMissing(p) == Done(p, "false")

\* kv.get(getActivityKey(activityId)) in updateActivityState and getActivity (lines 244, 265)
KvGet(p, ok) ==
  /\ proc[p].pc = "get"
  /\ LET a == proc[p].aid
         exists == a \in DOMAIN kvData IN
     proc' =
       IF ~ok THEN [Done(p, IF proc[p].op = "getActivity" THEN "null" ELSE "false")
                      EXCEPT ![p].failed = TRUE]
       ELSE IF proc[p].op = "getActivity"
       THEN IF exists THEN [Done(p, "session") EXCEPT ![p].val = kvData[a], ![p].found = TRUE]
                      ELSE Done(p, "null")
       ELSE IF exists
       THEN [proc EXCEPT ![p].pc = "set", ![p].found = TRUE,
                         ![p].val = [kvData[a] EXCEPT !.state = proc[p].st, !.lastUpdated = now]]
       ELSE UpdateOnMissing(p)
  /\ UNCHANGED <<now, cronVars, storeDraft, extVars, signerVars, memVars, kvData, kvIndex>>

\* where a function continues after removeActivity has returned
AfterRemove(p) ==
  IF proc[p].op = "removeActivity" THEN Done(p, "void") ELSE [proc EXCEPT ![p].pc = "scan"]

\* kv.del(getActivityKey(activityId)) in removeActivity (line 278); a failure is
\* caught and not rethrown (lines 281-284)
KvDel(p, ok) ==
  /\ proc[p].pc = "del"
  /\ IF ok
     THEN /\ kvData' = Drop(kvData, proc[p].aid)
          /\ proc' = [proc EXCEPT ![p].pc = "srem", ![p].wrote = TRUE]
     ELSE /\ kvData' = kvData
          /\ proc' = [AfterRemove(p) EXCEPT ![p].failed = TRUE]
  /\ UNCHANGED <<now, cronVars, storeDraft, extVars, signerVars, memVars, kvIndex>>

\* kv.srem(KV_INDEX_KEY, activityId) in removeActivity (line 279)
KvSrem(p, ok) ==
  /\ proc[p].pc = "srem"
  /\ IF ok
     THEN /\ kvIndex' = kvIndex \ {proc[p].aid}
          /\ proc' = AfterRemove(p)
     ELSE /\ kvIndex' = kvIndex
          /\ proc' = [AfterRemove(p) EXCEPT ![p].failed = TRUE]
  /\ UNCHANGED <<now, cronVars, storeDraft, extVars, signerVars, memVars, kvData>>

\* the catch blocks of the two scans: return [] (line 315), return 0 (line 339)
ScanFails(p) ==
  [proc EXCEPT ![p].pc = "done", ![p].ret = "caught", ![p].active = {}, ![p].failed = TRUE]

\* kv.smembers(KV_INDEX_KEY) (lines 294, 325)
KvSmembers(p, ok) ==
  /\ proc[p].pc = "smembers"
  /\ proc' = IF ok THEN [proc EXCEPT ![p].pc = "scan", ![p].todo = kvIndex]
                   ELSE ScanFails(p)
  /\ UNCHANGED <<now, cronVars, storeDraft, extVars, signerVars, memVars, kvData, kvIndex>>

\* the stale branch of the scan without the removal (the scan only filters)
ScanStaleSkips(p, a) == [proc EXCEPT ![p].todo = @ \ {a}]

\* the stale branch of the scan: removeActivity(activityId) (lines 303-306, 330-332)
ScanStale(p, a) ==
  [proc EXCEPT ![p].todo = @ \ {a}, ![p].aid = a, ![p].pc = "del", ![p].removed = @ \cup {a}]

ScanSkipsThrowsOnMissing(p, a) ==
  IF a \in DOMAIN kvData THEN [proc EXCEPT ![p].todo = @ \ {a}] ELSE ScanFails(p)

\* neither branch of the round applies (`session &&` is false for a key without
\* a value): the loop goes on
ScanSkips(p, a) == [proc EXCEPT ![p].todo = @ \ {a}]

\* one round of `for (const activityId of index)`: kv.get and the test of
\* the session read (lines 299-307, 328-333)
KvScan(p, a, ok) ==
  /\ proc[p].pc = "scan"
  /\ a \in proc[p].todo
  /\ LET exists == a \in DOMAIN kvData
         t == proc[p].t0
         th == proc[p].th IN
     proc' =
       IF ~ok THEN ScanFails(p)
       ELSE IF exists /\ IsStale(t, kvData[a], th) THEN ScanStale(p, a)
       ELSE IF exists /\ proc[p].op = "getAllActiveActivities" /\ IsActive(t, kvData[a], th)
       THEN [proc EXCEPT ![p].todo = @ \ {a}, ![p].active = @ \cup {kvData[a]}]
       ELSE ScanSkips(p, a)
  /\ UNCHANGED <<now, cronVars, storeDraft, extVars, signerVars, memVars, kvData, kvIndex>>

\* the loop is over: return active (line 311), return removed (line 336)
KvScanReturns(p) ==
  /\ proc[p].pc = "scan"
  /\ proc[p].todo = {}
  /\ proc[p].op \in {"getAllActiveActivities", "cleanupStaleActivities"}
  /\ proc' = Done(p, "returned")
  /\ UNCHANGED <<now, cronVars, storeDraft, extVars, signerVars, memVars, kvData, kvIndex>>

\* the handler that made the call has its result and ends
KvHandlerEnds(p) ==
  /\ proc[p].pc = "done"
  /\ proc[p].op \in {"storeActivity", "updateActivityState", "getActivity", "removeActivity",
                     "getAllActiveActivities", "cleanupStaleActivities"}
  /\ proc' = [proc EXCEPT ![p] = IdleProc]
  /\ UNCHANGED <<now, cronVars, storeDraft, extVars, signerVars, memVars, kvData, kvIndex>>

\* time passes
Tick ==
  /\ now < MaxNow
  /\ now' = now + 1
  /\ UNCHANGED <<cronVars, storeDraft, extVars, signerVars, nonSignerVars>>

StoreInit ==
  /\ storeDraft \in StoreDrafts
  /\ sessions = Empty
  /\ memCall = [fn |-> "none"]
  /\ kvData = Empty
  /\ kvIndex = {}
  /\ proc = [p \in Procs |-> IdleProc]
  /\ cron = IdleCron("none")
  /\ lastErrorAt = [r \in Routes |-> -1]
  /\ env = FullEnv
  /\ osCall = IdleCall
  /\ la = IdleLa

SignerInit ==
  /\ now = 0
  /\ StoreInit
  /\ storeDraft = "kv"
  /\ apnsKey \in KeyKinds
  /\ jwtToken = 0
  /\ jwtTokenExpiry = 0
  /\ jwtTokenPromise = 0
  /\ promises = <<>>
  /\ caller = [c \in Callers |-> IdleCaller]

SignerNext ==
  \/ \E c \in Callers : CallerCalls(c)
  \/ \E p \in 1..MaxSignOps, ok \in BOOLEAN : ImportKeySettles(p, ok)
  \/ \E p \in 1..MaxSignOps, ok \in BOOLEAN : SignSettles(p, ok)
  \/ \E c \in Callers : CallerResumes(c)
  \/ \E c \in Callers : CallerLeaves(c)
  \/ Tick

\* time passes for as long as a token lives: one hour and beyond
SignerTick ==
  /\ now < MaxSignerNow
  /\ now' = now + 1
  /\ UNCHANGED <<cronVars, storeDraft, extVars, signerVars, nonSignerVars>>

\* the signer over the lifetime of a token
SignerClockNext ==
  \/ \E c \in Callers : CallerCalls(c)
  \/ \E p \in 1..MaxSignOps, ok \in BOOLEAN : ImportKeySettles(p, ok)
  \/ \E p \in 1..MaxSignOps, ok \in BOOLEAN : SignSettles(p, ok)
  \/ \E c \in Callers : CallerResumes(c)
  \/ \E c \in Callers : CallerLeaves(c)
  \/ SignerTick

SignerClockSpec == SignerInit /\ [][SignerClockNext]_vars

(***************************************************************************)
(* The session store under its callers: any handler may call any store     *)
(* function with any arguments at any time.                                *)
(***************************************************************************)
StoreSpecInit ==
  /\ now = 0
  /\ StoreInit
  /\ apnsKey = "absent"
  /\ jwtToken = 0
  /\ jwtTokenExpiry = 0
  /\ jwtTokenPromise = 0
  /\ promises = <<>>
  /\ caller = [c \in Callers |-> IdleCaller]

MemNext ==
  \/ \E a \in Acts, pl \in PlayerIds, tok \in StoreTokens, st \in StateSet : MemStoreActivity(a, pl, tok, st)
  \/ \E a \in Acts, st \in StateSet : MemUpdateActivityState(a, st)
  \/ \E a \in Acts : MemGetActivity(a)
  \/ \E a \in Acts : MemRemoveActivity(a)
  \/ \E th \in Thresholds : MemGetAllActiveActivities(th)
  \/ \E th \in Thresholds : MemCleanupStaleActivities(th)

KvNext ==
  \/ \E p \in Handlers, a \in Acts, pl \in PlayerIds, tok \in StoreTokens, st \in StateSet :
        KvStoreActivity(p, a, pl, tok, st)
  \/ \E p \in Handlers, a \in Acts, st \in StateSet : KvUpdateActivityState(p, a, st)
  \/ \E p \in Handlers, a \in Acts : KvGetActivity(p, a)
  \/ \E p \in Handlers, a \in Acts : KvRemoveActivity(p, a)
  \/ \E p \in Handlers, th \in Thresholds : KvGetAllActiveActivities(p, th)
  \/ \E p \in Handlers, th \in Thresholds : KvCleanupStaleActivities(p, th)
  \/ \E p \in Handlers, ok \in BOOLEAN : KvSet(p, ok)
  \/ \E p \in Handlers, ok \in BOOLEAN : KvSadd(p, ok)
  \/ \E p \in Handlers, ok \in BOOLEAN : KvGet(p, ok)
  \/ \E p \in Handlers, ok \in BOOLEAN : KvDel(p, ok)
  \/ \E p \in Handlers, ok \in BOOLEAN : KvSrem(p, ok)
  \/ \E p \in Handlers, ok \in BOOLEAN : KvSmembers(p, ok)
  \/ \E p \in Handlers, a \in Acts, ok \in BOOLEAN : KvScan(p, a, ok)
  \/ \E p \in Handlers : KvScanReturns(p)
  \/ \E p \in Handlers : KvHandlerEnds(p)

StoreNext ==
  \/ storeDraft = "memory" /\ MemNext
  \/ storeDraft = "kv" /\ KvNext
  \/ Tick

StoreSpec == StoreSpecInit /\ [][StoreNext]_vars

(***************************************************************************)
(* Delivery orchestrator, direct push with provider fallback               *)
(* (src/unnamed/part_009).  It reads the KV draft of the store as handler  *)
(* "cron" and signs as caller CronCaller.  The loop over the sessions is   *)
(* sequential; each await of the handler is one step.                      *)
(***************************************************************************)
CronCaller == 1

\* the record of a getAllActiveActivities call up to `await kv.smembers`
GetAllActiveCall(th) ==
  [IdleProc EXCEPT !.op = "getAllActiveActivities", !.pc = "smembers", !.th = th, !.t0 = now]

\* the store the cron handler of this draft reads
CronStore == IF cron.draft = "dual" THEN kvData ELSE sessions

ListedSession(cr, a) == CHOOSE s \in cr.listed : s.activityId = a

Failure(act) == [success |-> FALSE, method |-> "none", action |-> act]

Success(m, act) == [success |-> TRUE, method |-> m, action |-> act]

\* the response of the handler without a cycle: 401 (line 16), 500 (lines 25-32)
Responded(cr, status) == [cr EXCEPT !.pc = "done", !.status = status]

\* the counts of the run (variant: every success is counted as a provider
\* success)
SummaryCountsAllAsProvider(cr) ==
  LET ok == {a \in DOMAIN cr.results : cr.results[a].success}
      counts == [successful |-> Cardinality(ok),
                 failed |-> Cardinality(DOMAIN cr.results \ ok),
                 apnsCount |-> Cardinality({a \in ok : cr.results[a].method = "apns"}),
                 onesignalCount |-> Cardinality(ok)]
      playerIds == {s.playerId : s \in cr.listed} \ {""} IN
  IF counts.successful > 0 /\ playerIds # {}
  THEN [cr EXCEPT !.summary = counts, !.pc = "silent"]
  ELSE [cr EXCEPT !.summary = counts, !.pc = "done", !.status = 200]

\* lines 271-346: the counts of the run, the silent push that wakes the app when
\* something succeeded and a player id is known, and the response
Summary(cr) ==
  LET ok == {a \in DOMAIN cr.results : cr.results[a].success}
      counts == [successful |-> Cardinality(ok),
                 failed |-> Cardinality(DOMAIN cr.results \ ok),
                 apnsCount |-> Cardinality({a \in ok : cr.results[a].method = "apns"}),
                 onesignalCount |-> Cardinality({a \in ok : cr.results[a].method = "onesignal"})]
      playerIds == {s.playerId : s \in cr.listed} \ {""} IN
  IF counts.successful > 0 /\ playerIds # {}
  THEN [cr EXCEPT !.summary = counts, !.pc = "silent"]
  ELSE [cr EXCEPT !.summary = counts, !.pc = "done", !.status = 200]

\* updateResults.push(r) for the current session, then the next round of the
\* loop or, after the last session, the summary
RecordedUnlessFailure(cr, r) ==
  LET rest == cr.todo \ {cr.cur}
      next == [cr EXCEPT !.results = Put(@, cr.cur, r), !.todo = rest, !.pc = "loop",
                         !.calls[cr.cur].recorded = @ + 1] IN
  IF ~r.success THEN Responded(cr, 500)
  ELSE IF rest = {} THEN Summary(next) ELSE next

Recorded(cr, r) ==
  LET rest == cr.todo \ {cr.cur}
      next == [cr EXCEPT !.results = Put(@, cr.cur, r), !.todo = rest, !.pc = "loop",
                         !.calls[cr.cur].recorded = @ + 1, !.aux = "none"] IN
  IF rest = {} THEN Summary(next) ELSE next

\* Math.max(0, x)
Max0(x) == IF x < 0 THEN 0 ELSE x

\* the body of the provider update (lines 165-176): the push token (trimmed;
\* the tokens here have no white space) and the state with timeToFullMinutes
\* clamped at 0
ProviderPayload(s) ==
  [event |-> "update",
   event_updates |-> [s.state EXCEPT !.timeToFullMinutes = Max0(@)],
   push_token |-> s.pushToken]

\* the body of the direct update: the content-state is the stored state as it
\* is (part_009 lines 93-98, apns-client.ts lines 206-217)
DirectPayload(s) == [event |-> "update", content_state |-> s.state]

\* the provider update that is never attempted
ProviderUpdateNever(cr) == Recorded(cr, Failure("update"))

\* lines 155-230: the provider update up to its fetch; a push token shorter
\* than 32 characters throws before the fetch (line 189) and the catch records
\* the failure (lines 261-267)
ProviderUpdate(cr) ==
  IF TokLen(ListedSession(cr, cr.cur).pushToken) < 32
  THEN Recorded(cr, Failure("update"))
  ELSE [cr EXCEPT !.pc = "provider", !.calls[cr.cur].update = @ + 1,
                  !.calls[cr.cur].payload = ProviderPayload(ListedSession(cr, cr.cur))]

\* lines 117-153: after a failed or skipped direct update, a session older than
\* 5 minutes with a player id gets a silent push first
AfterDirect(cr) ==
  IF cr.ageSeconds > 5 * 60 /\ ListedSession(cr, cr.cur).playerId # ""
  THEN [cr EXCEPT !.pc = "wake", !.calls[cr.cur].wake = @ + 1]
  ELSE ProviderUpdate(cr)

\* the direct success that falls through to the provider update
DirectSucceededFallsThrough(cr) == AfterDirect([cr EXCEPT !.directOk = @ \cup {cr.cur}])

\* lines 101-109: the direct update succeeded: record method 'apns' and continue
DirectSucceeded(cr) ==
  Recorded([cr EXCEPT !.directOk = @ \cup {cr.cur}], Success("apns", "update"))

DirectFailedEndsRound(cr, error) ==
  Recorded([cr EXCEPT !.calls[cr.cur].directError = error], Failure("update"))

\* lines 110-114: the direct update returned success: false with an error;
\* the round goes on to the fallback
DirectFailed(cr, error) == AfterDirect([cr EXCEPT !.calls[cr.cur].directError = error])

\* `Bearer ${cronSecret}`
Bearer(secret) == "Bearer " \o secret

\* the request as the handler sees it: CRON_SECRET of the environment and the
\* authorization header ("" for none)
Triggered(cr, req) == [cr EXCEPT !.secret = req.secret, !.header = req.header]

RejectsNever(req) == FALSE

\* !cronSecret || authHeader !== `Bearer ${cronSecret}` (part_009 line 15)
Rejects(req) == req.secret = "" \/ req.header # Bearer(req.secret)

\* expectedSecret && cronSecret !== `Bearer ${expectedSecret}` (route.ts line
\* 22, push-updates/route.ts line 17)
RejectsWhenSecretSet(req) == req.secret # "" /\ req.header # Bearer(req.secret)

\* GET up to `await getAllActiveActivities()` (lines 10-39)
CronDualGET(req) ==
  /\ cron.draft = "dual"
  /\ cron.pc = "idle"
  /\ IF Rejects(req)
     THEN /\ cron' = Responded(Triggered(cron, req), 401)
          /\ proc' = proc
     ELSE IF ~req.creds
     THEN /\ cron' = Responded([Triggered(cron, req) EXCEPT !.creds = FALSE], 500)
          /\ proc' = proc
     ELSE /\ cron' = [Triggered(cron, req) EXCEPT !.pc = "list", !.t0 = now, !.start = kvData]
          /\ proc' = Begin("cron", GetAllActiveCall(DefaultActiveThresholdMs))
  /\ UNCHANGED <<now, lastErrorAt, storeDraft, extVars, signerVars, memVars, kvData, kvIndex>>

\* getAllActiveActivities has returned (lines 39-57)
CronDualListed ==
  /\ cron.draft = "dual"
  /\ cron.pc = "list"
  /\ proc["cron"].pc = "done"
  /\ LET active == proc["cron"].active
         cr == [cron EXCEPT !.listed = active, !.todo = {s.activityId : s \in active},
                            !.kvFailed = proc["cron"].failed] IN
     cron' = IF active = {} THEN Responded(cr, 200) ELSE [cr EXCEPT !.pc = "loop"]
  /\ proc' = [proc EXCEPT !["cron"] = IdleProc]
  /\ UNCHANGED <<now, lastErrorAt, storeDraft, extVars, signerVars, memVars, kvData, kvIndex>>

\* one round of `for (const session of activeActivities)` up to its first
\* await: the validation (line 67), the age (line 87) and, if the direct
\* client is configured, sendLiveActivityUpdate up to `await generateJWT()`
CronDualSession(a) ==
  /\ cron.draft = "dual"
  /\ cron.pc = "loop"
  /\ a \in cron.todo
  /\ LET s == ListedSession(cron, a)
         cr == [cron EXCEPT !.cur = a, !.ageSeconds = (now - s.lastUpdated) * TickSec] IN
     IF InvalidToken(s.pushToken)
     THEN /\ cron' = Recorded(cr, Failure("validate"))
          /\ UNCHANGED signerVars
     ELSE IF isConfigured
     THEN /\ GenerateJWT(CronCaller)
          /\ cron' = [cr EXCEPT !.pc = "jwt", !.calls[a].direct = @ + 1]
     ELSE /\ cron' = AfterDirect(cr)
          /\ UNCHANGED signerVars
  /\ UNCHANGED <<now, lastErrorAt, storeDraft, extVars, nonSignerVars>>

\* sendLiveActivityUpdate after `await this.generateJWT()`: the fetch to the
\* gateway (apns-client.ts lines 200-233), or the catch (259-265) and then the
\* fallback of the handler
CronDirectSigned ==
  /\ cron.draft = "dual"
  /\ cron.pc = "jwt"
  /\ caller[CronCaller].pc \in {"returned", "threw"}
  /\ cron' = IF caller[CronCaller].pc = "returned"
             THEN [cron EXCEPT !.pc = "apns",
                               !.calls[cron.cur].content = DirectPayload(ListedSession(cron, cron.cur))]
             ELSE DirectFailed(cron, caller[CronCaller].err)
  /\ caller' = [caller EXCEPT ![CronCaller] = IdleCaller]
  /\ UNCHANGED <<now, lastErrorAt, storeDraft, extVars, nonSignerVars, apnsKey, jwtToken,
                 jwtTokenExpiry, jwtTokenPromise, promises>>

\* the gateway has answered (apns-client.ts lines 235-258, part_009 lines 101-115)
CronDirectResponds(ok) ==
  /\ cron.draft = "dual"
  /\ cron.pc = "apns"
  /\ cron' = IF ok THEN DirectSucceeded(cron) ELSE DirectFailed(cron, "gateway")
  /\ UNCHANGED <<now, lastErrorAt, storeDraft, extVars, signerVars, nonSignerVars>>

\* the silent push for a session older than 5 minutes that ends the round
\* with a failure unless the provider accepted it
CronWakeRespondsCounts(outcome) ==
  /\ cron.draft = "dual"
  /\ cron.pc = "wake"
  /\ cron' = IF outcome = "ok" THEN ProviderUpdate([cron EXCEPT !.aux = outcome])
             ELSE Recorded([cron EXCEPT !.aux = outcome], Failure("update"))
  /\ UNCHANGED <<now, lastErrorAt, storeDraft, extVars, signerVars, nonSignerVars>>

\* the silent push for a session older than 5 minutes has been answered or has
\* thrown inside its try/catch; either way the provider update follows
\* (lines 134-155); `aux` keeps the outcome of the last auxiliary request
CronWakeResponds(outcome) ==
  /\ cron.draft = "dual"
  /\ cron.pc = "wake"
  /\ cron' = ProviderUpdate([cron EXCEPT !.aux = outcome])
  /\ UNCHANGED <<now, lastErrorAt, storeDraft, extVars, signerVars, nonSignerVars>>

\* the provider has answered the update, or the fetch has thrown (lines 223-268)
CronProviderResponds(ok) ==
  /\ cron.draft = "dual"
  /\ cron.pc = "provider"
  /\ cron' = IF ok
             THEN Recorded([cron EXCEPT !.providerOk = @ \cup {cron.cur}],
                           Success("onesignal", "update"))
             ELSE Recorded(cron, Failure("update"))
  /\ UNCHANGED <<now, lastErrorAt, storeDraft, extVars, signerVars, nonSignerVars>>

\* the silent push after the loop has been answered or has thrown inside its
\* try/catch (lines 314-346)
CronSilentResponds(outcome) ==
  /\ cron.draft = "dual"
  /\ cron.pc = "silent"
  /\ cron' = [cron EXCEPT !.pc = "done", !.status = 200, !.aux = outcome]
  /\ UNCHANGED <<now, lastErrorAt, storeDraft, extVars, signerVars, nonSignerVars>>

(***************************************************************************)
(* Delivery orchestrator, provider only                                    *)
(* (src/app/api/cron/update-live-activities/route.ts lines 18-105).  It    *)
(* calls the in-memory draft of the store, whose functions are             *)
(* synchronous, and sends through callOneSignal (src/lib/onesignal.ts).    *)
(***************************************************************************)
CronThresholdMs == 10 * 60 * 1000

\* the throttle of the error log (variant: an error exactly ERROR_BACKOFF_MS
\* after the last logged one is logged again)
ErrorLoggedAtBackoff(route) ==
  IF lastErrorAt[route] = -1 \/ (now - lastErrorAt[route]) * TickMs >= 5 * 60 * 1000
  THEN [lastErrorAt EXCEPT ![route] = now]
  ELSE lastErrorAt

\* callOneSignal on a failed request: the entry of `lastErrorAt` for the route
\* moves to now when the last logged error is older than ERROR_BACKOFF_MS
\* (onesignal.ts lines 4, 112-117, 147-152)
ErrorLogged(route) ==
  IF lastErrorAt[route] = -1 \/ (now - lastErrorAt[route]) * TickMs > 5 * 60 * 1000
  THEN [lastErrorAt EXCEPT ![route] = now]
  ELSE lastErrorAt

(***************************************************************************)
(* Provider push client: callOneSignal (src/lib/onesignal.ts lines 4-162). *)
(* A call is the steps between its awaits: up to fetch, up to res.text(),  *)
(* and from there to the return.  The response body is "" (empty, or       *)
(* res.text() failed, line 114), "json" (parses) or "text" (does not).     *)
(***************************************************************************)
\* a charging state whose time to full is negative
Overdue == [soc |-> 99, watts |-> 5, timeToFullMinutes |-> -3, isCharging |-> TRUE]

\* body.state is missing
NoState == [missing |-> TRUE]

\* the states callOneSignal uses when body.state is missing (lines 43-48, 75-80)
\* (watts 7.5 is kept as 7)
DefaultUpdateState == [soc |-> 85, watts |-> 7, timeToFullMinutes |-> 18, isCharging |-> TRUE]
DefaultEndState == [soc |-> 0, watts |-> 0, timeToFullMinutes |-> 0, isCharging |-> FALSE]

Bodies == [activityId : {"", "A1"}, state : {Charging, Overdue, NoState}, pushToken : StoreTokens]

ProviderStatuses == {200, 202, 400}

ProviderTexts == {"", "json", "text"}

\* the payload of the request (lines 40-57, 82-91); push_token "" is no field
Payload(routeName, body) ==
  [event |-> routeName,
   event_updates |-> IF body.state # NoState THEN body.state
                     ELSE IF routeName = "update" THEN DefaultUpdateState ELSE DefaultEndState,
   push_token |-> IF routeName = "update" THEN body.pushToken ELSE ""]

\* `return {ok, status, error, details}` or `{ok, status, data}`
CallReturned(call, ok, status, error, details) ==
  [call EXCEPT !.pc = "done",
               !.result = [ok |-> ok, status |-> status, error |-> error, details |-> details]]

\* the outer catch (lines 151-161)
NetworkError(call) ==
  CallReturned([call EXCEPT !.logged = ErrorLogged(call.route) # lastErrorAt],
               FALSE, 500, "NETWORK_ERROR", "null")

\* JSON.parse(responseText) inside try/catch with the raw text as fallback
\* (lines 128-133)
ErrorDetails(text) == IF text = "json" THEN "parsed" ELSE text

\* the code after `await res.text()` for a response that is ok (lines 143-150):
\* JSON.parse of a body that is not JSON throws into the outer catch
OkResponse(call, text) ==
  IF text = "text" THEN NetworkError(call)
  ELSE CallReturned(call, TRUE, call.status, "none", IF text = "" THEN "{}" ELSE "parsed")

\* the call after its first step: returned for missing credentials or a missing
\* activityId (lines 13-32), else awaiting fetch
Called(routeName, body) ==
  LET call == [IdleCall EXCEPT !.route = routeName] IN
  IF ~env["ONESIGNAL_APP_ID"] \/ ~env["ONESIGNAL_REST_API_KEY"]
  THEN CallReturned(call, FALSE, 500, "Missing OneSignal env vars", "null")
  ELSE IF body.activityId = ""
  THEN CallReturned(call, FALSE, 400, "Missing activityId", "null")
  ELSE [call EXCEPT !.pc = "fetch", !.payload = Payload(routeName, body)]

\* callOneSignal up to `await fetch` (lines 4-104)
CallOneSignal(routeName, body) ==
  /\ osCall.pc = "idle"
  /\ osCall' = Called(routeName, body)
  /\ UNCHANGED <<now, cronVars, storeDraft, env, la, signerVars, nonSignerVars>>

\* fetch resolves with a response (line 104), up to `await res.text()`
CallResponds(status) ==
  /\ osCall.pc = "fetch"
  /\ osCall' = [osCall EXCEPT !.pc = "text", !.status = status]
  /\ UNCHANGED <<now, cronVars, storeDraft, env, la, signerVars, nonSignerVars>>

\* fetch rejects: the outer catch (lines 151-161)
CallFetchThrows ==
  /\ osCall.pc = "fetch"
  /\ osCall' = NetworkError(osCall)
  /\ lastErrorAt' = ErrorLogged(osCall.route)
  /\ UNCHANGED <<now, cron, storeDraft, env, la, signerVars, nonSignerVars>>

\* res.text() settles (line 114) and the call runs to its return (lines 115-150)
CallReadsBody(text) ==
  /\ osCall.pc = "text"
  /\ LET call == [osCall EXCEPT !.text = text] IN
     IF ~ResponseOk(osCall.status)
     THEN /\ lastErrorAt' = ErrorLogged(osCall.route)
          /\ osCall' = CallReturned([call EXCEPT !.logged = ErrorLogged(osCall.route) # lastErrorAt],
                                    FALSE, osCall.status, "ONESIGNAL_ERROR", ErrorDetails(text))
     ELSE /\ osCall' = OkResponse(call, text)
          /\ lastErrorAt' = IF OkResponse(call, text).result.ok THEN lastErrorAt
                            ELSE ErrorLogged(osCall.route)
  /\ UNCHANGED <<now, cron, storeDraft, env, la, signerVars, nonSignerVars>>

\* the caller has the result
CallEnds ==
  /\ osCall.pc = "done"
  /\ osCall' = [osCall EXCEPT !.pc = "idle"]
  /\ UNCHANGED <<now, cronVars, storeDraft, env, la, signerVars, nonSignerVars>>

\* callOneSignal under its callers: one call after the other, with any route
\* and body, at any time, with or without the provider's credentials
ProviderInit ==
  /\ now = 0
  /\ storeDraft = "memory"
  /\ sessions = Empty
  /\ memCall = [fn |-> "none"]
  /\ kvData = Empty
  /\ kvIndex = {}
  /\ proc = [p \in Procs |-> IdleProc]
  /\ cron = IdleCron("none")
  /\ lastErrorAt = [r \in Routes |-> -1]
  /\ env \in {e \in [EnvNames -> BOOLEAN] :
                e["APNS_KEY_ID"] /\ e["APNS_TEAM_ID"] /\ e["APNS_BUNDLE_ID"]}
  /\ osCall = IdleCall
  /\ la = IdleLa
  /\ apnsKey = "absent"
  /\ jwtToken = 0
  /\ jwtTokenExpiry = 0
  /\ jwtTokenPromise = 0
  /\ promises = <<>>
  /\ caller = [c \in Callers |-> IdleCaller]

ProviderNext ==
  \/ \E routeName \in Routes, body \in Bodies : CallOneSignal(routeName, body)
  \/ \E status \in ProviderStatuses : CallResponds(status)
  \/ CallFetchThrows
  \/ \E text \in ProviderTexts : CallReadsBody(text)
  \/ CallEnds
  \/ Tick

ProviderSpec == ProviderInit /\ [][ProviderNext]_vars

\* the route the handler calls for a session (lines 55-57)
RouteOf(s) == IF s.state.isCharging THEN "update" ELSE "end"

\* what a successful call leaves in the store (lines 63-70): an ended session
\* is removed
SessionsAfterResult(s, ok) ==
  IF ok /\ RouteOf(s) = "end" THEN Drop(sessions, s.activityId) ELSE sessions

\* GET up to `await Promise.allSettled(...)` (lines 18-91): the cleanup, the
\* the body the handler passes to callOneSignal (route.ts lines 57-61):
\* activityId, state and dismissalDate, and no pushToken
CronBody(s) == [activityId |-> s.activityId, state |-> s.state, pushToken |-> ""]

\* list and, for every listed session, callOneSignal up to its fetch
CronProviderGET(req) ==
  /\ cron.draft = "provider"
  /\ cron.pc = "idle"
  /\ IF RejectsWhenSecretSet(req)
     THEN /\ cron' = Responded(Triggered(cron, req), 401)
          /\ sessions' = sessions
     ELSE LET kept == SessionsAfterCleanup(CronThresholdMs)
              ids == {a \in DOMAIN kept : IsActive(now, kept[a], CronThresholdMs)}
              cr == [Triggered(cron, req) EXCEPT !.t0 = now, !.start = sessions, !.creds = req.creds,
                                 !.listed = {kept[a] : a \in ids}, !.todo = ids,
                                 !.calls = [a \in Acts |->
                                              IF a \in ids
                                              THEN [NoCalls EXCEPT
                                                      ![RouteOf(kept[a])] = 1,
                                                      !.payload = Payload(RouteOf(kept[a]), CronBody(kept[a]))]
                                              ELSE NoCalls]] IN
          /\ sessions' = kept
          /\ cron' = IF ids = {} THEN Responded(cr, 200) ELSE [cr EXCEPT !.pc = "settle"]
  /\ UNCHANGED <<now, lastErrorAt, storeDraft, extVars, signerVars, memCall, kvVars>>

\* callOneSignal returns for one session and the callback of the map goes on
\* (onesignal.ts lines 13-161, route.ts lines 63-80); without the credentials
\* the call fails before its fetch
CronProviderResult(a, ok) ==
  /\ cron.draft = "provider"
  /\ cron.pc = "settle"
  /\ a \in cron.todo
  /\ ~cron.creds => ~ok
  /\ LET s == ListedSession(cron, a)
         rest == cron.todo \ {a} IN
     /\ sessions' = SessionsAfterResult(s, ok)
     /\ lastErrorAt' = IF ~ok /\ cron.creds THEN ErrorLogged(RouteOf(s)) ELSE lastErrorAt
     /\ cron' = [cron EXCEPT !.results = Put(@, a, IF ok THEN Success("none", RouteOf(s))
                                                        ELSE Failure(RouteOf(s))),
                             !.providerOk = IF ok THEN @ \cup {a} ELSE @,
                             !.todo = rest,
                             !.pc = IF rest = {} THEN "gather" ELSE "settle"]
  /\ UNCHANGED <<now, storeDraft, extVars, signerVars, memCall, kvVars>>

\* every callback has settled: the counts and the response (lines 93-104)
CronProviderReturns ==
  /\ cron.draft = "provider"
  /\ cron.pc = "gather"
  /\ LET ok == {a \in DOMAIN cron.results : cron.results[a].success} IN
     cron' = [cron EXCEPT !.pc = "done", !.status = 200,
                          !.summary = [NoSummary EXCEPT
                                         !.successful = Cardinality(ok),
                                         !.failed = Cardinality(DOMAIN cron.results \ ok)]]
  /\ UNCHANGED <<now, lastErrorAt, storeDraft, extVars, signerVars, nonSignerVars>>

(***************************************************************************)
(* Delivery orchestrator, timestamp refreshing                             *)
(* (src/app/api/cron/push-updates/route.ts lines 12-114).  The object      *)
(* `sessionStore` it imports is not among the sources: getAll and set are  *)
(* taken from the specification of the session store (every stored         *)
(* session; whole-record upsert) over the Map `sessions`, with the         *)
(* session's `lastUpdate` kept in the field lastUpdated.                   *)
(***************************************************************************)
SessionStoreGetAll == {sessions[a] : a \in DOMAIN sessions}

SessionStoreSet(s) == Put(sessions, s.activityId, s)

\* the next round of `for (const session of sessions)` up to its fetch, or
\* the response after the last one (lines 53-76, 100-113)
RefreshNext(cr) ==
  IF cr.todo = {}
  THEN [cr EXCEPT !.pc = "done", !.status = 200]
  ELSE LET a == CHOOSE x \in cr.todo : TRUE IN
       [cr EXCEPT !.pc = "fetch", !.cur = a, !.calls[a].update = @ + 1]

\* GET up to the first fetch (lines 12-76)
CronRefreshGET(req) ==
  /\ cron.draft = "refresh"
  /\ cron.pc = "idle"
  /\ LET all == SessionStoreGetAll
         cr == [Triggered(cron, req) EXCEPT !.t0 = now, !.start = sessions, !.listed = all,
                                               !.todo = {s.activityId : s \in all}] IN
     cron' = IF RejectsWhenSecretSet(req) THEN Responded(Triggered(cron, req), 401)
             ELSE IF all = {} THEN Responded(cr, 200)
             ELSE IF ~req.creds THEN Responded([cr EXCEPT !.creds = FALSE], 500)
             ELSE RefreshNext(cr)
  /\ UNCHANGED <<now, lastErrorAt, storeDraft, extVars, signerVars, nonSignerVars>>

\* the provider has answered, or the fetch has thrown (lines 69-98): on
\* response.ok the session's timestamp is set to now and the session is stored
CronRefreshResponds(ok) ==
  /\ cron.draft = "refresh"
  /\ cron.pc = "fetch"
  /\ LET a == cron.cur
         s == ListedSession(cron, a)
         cr == [cron EXCEPT !.results = Put(@, a, IF ok THEN Success("none", "update")
                                                      ELSE Failure("update")),
                            !.providerOk = IF ok THEN @ \cup {a} ELSE @,
                            !.todo = @ \ {a}] IN
     /\ sessions' = IF ok THEN SessionStoreSet([s EXCEPT !.lastUpdated = now]) ELSE sessions
     /\ cron' = RefreshNext(cr)
  /\ UNCHANGED <<now, lastErrorAt, storeDraft, extVars, signerVars, memCall, kvVars>>

(***************************************************************************)
(* One cycle of a cron handler over a store holding any sessions, at any   *)
(* age up to MaxNow ticks.                                                 *)
(***************************************************************************)
Secrets == {"", "S1"}

Headers == {"", "Bearer S1", "Bearer S2"}

Requests == [secret : Secrets, header : Headers, creds : BOOLEAN]

\* the player id a session was stored with: the first device is subscribed,
\* the second is not
PlayerOf(a) == IF a = "A1" THEN "P1" ELSE ""

\* the sessions a store may hold at tick t: stored at tick 0 or just now
SessionChoices(t) ==
  {Session(a, PlayerOf(a), tok, st, lu) :
     a \in Acts, tok \in Tokens, st \in StateSet, lu \in {0, t}}

InitialStores(t) ==
  {f \in UNION {[D -> SessionChoices(t)] : D \in SUBSET Acts} :
     \A a \in DOMAIN f : f[a].activityId = a}

CronInit ==
  /\ now \in 0..MaxNow
  /\ \E d \in CronDrafts, f \in InitialStores(now) :
        /\ cron = IdleCron(d)
        /\ storeDraft = IF d = "dual" THEN "kv" ELSE "memory"
        /\ sessions = IF d = "dual" THEN Empty ELSE f
        /\ kvData = IF d = "dual" THEN f ELSE Empty
        /\ kvIndex = IF d = "dual" THEN DOMAIN f ELSE {}
        /\ apnsKey \in IF d = "dual" THEN KeyKinds ELSE {"absent"}
  /\ lastErrorAt = [r \in Routes |-> -1]
  /\ env = FullEnv
  /\ osCall = IdleCall
  /\ la = IdleLa
  /\ memCall = [fn |-> "none"]
  /\ proc = [p \in Procs |-> IdleProc]
  /\ jwtToken = 0
  /\ jwtTokenExpiry = 0
  /\ jwtTokenPromise = 0
  /\ promises = <<>>
  /\ caller = [c \in Callers |-> IdleCaller]

CronNext ==
  \/ \E req \in Requests : CronDualGET(req)
  \/ \E ok \in BOOLEAN : KvSmembers("cron", ok)
  \/ \E a \in Acts, ok \in BOOLEAN : KvScan("cron", a, ok)
  \/ \E ok \in BOOLEAN : KvDel("cron", ok)
  \/ \E ok \in BOOLEAN : KvSrem("cron", ok)
  \/ KvScanReturns("cron")
  \/ CronDualListed
  \/ \E a \in Acts : CronDualSession(a)
  \/ \E p \in 1..MaxSignOps, ok \in BOOLEAN : ImportKeySettles(p, ok)
  \/ \E p \in 1..MaxSignOps, ok \in BOOLEAN : SignSettles(p, ok)
  \/ CallerResumes(CronCaller)
  \/ CronDirectSigned
  \/ \E ok \in BOOLEAN : CronDirectResponds(ok)
  \/ \E outcome \in AuxOutcomes : CronWakeResponds(outcome)
  \/ \E ok \in BOOLEAN : CronProviderResponds(ok)
  \/ \E outcome \in AuxOutcomes : CronSilentResponds(outcome)
  \/ \E req \in Requests : CronProviderGET(req)
  \/ \E a \in Acts, ok \in BOOLEAN : CronProviderResult(a, ok)
  \/ CronProviderReturns
  \/ \E req \in Requests : CronRefreshGET(req)
  \/ \E ok \in BOOLEAN : CronRefreshResponds(ok)
  \/ Tick

CronSpec == CronInit /\ [][CronNext]_vars

\* stores whose sessions were all written with a negative time to full
OverdueStores(t) ==
  {[a \in DOMAIN f |-> [f[a] EXCEPT !.state = Overdue]] :
     f \in {g \in InitialStores(t) : \A a \in DOMAIN g : g[a].state = Charging}}

\* the handlers over such stores
OverdueInit ==
  /\ now \in 0..MaxNow
  /\ \E d \in CronDrafts, f \in OverdueStores(now) :
        /\ cron = IdleCron(d)
        /\ storeDraft = IF d = "dual" THEN "kv" ELSE "memory"
        /\ sessions = IF d = "dual" THEN Empty ELSE f
        /\ kvData = IF d = "dual" THEN f ELSE Empty
        /\ kvIndex = IF d = "dual" THEN DOMAIN f ELSE {}
        /\ apnsKey \in IF d = "dual" THEN KeyKinds ELSE {"absent"}
  /\ lastErrorAt = [r \in Routes |-> -1]
  /\ env = FullEnv
  /\ osCall = IdleCall
  /\ la = IdleLa
  /\ memCall = [fn |-> "none"]
  /\ proc = [p \in Procs |-> IdleProc]
  /\ jwtToken = 0
  /\ jwtTokenExpiry = 0
  /\ jwtTokenPromise = 0
  /\ promises = <<>>
  /\ caller = [c \in Callers |-> IdleCaller]

OverdueSpec == OverdueInit /\ [][CronNext]_vars

\* stores of charging sessions in which a session without a token has a blank one
BlankStores(t) ==
  {[a \in DOMAIN f |-> IF f[a].pushToken = "" THEN [f[a] EXCEPT !.pushToken = Blank] ELSE f[a]] :
     f \in {g \in InitialStores(t) : \A a \in DOMAIN g : g[a].state = Charging}}

\* the handlers over such stores
BlankInit ==
  /\ now \in 0..MaxNow
  /\ \E d \in CronDrafts, f \in BlankStores(now) :
        /\ cron = IdleCron(d)
        /\ storeDraft = IF d = "dual" THEN "kv" ELSE "memory"
        /\ sessions = IF d = "dual" THEN Empty ELSE f
        /\ kvData = IF d = "dual" THEN f ELSE Empty
        /\ kvIndex = IF d = "dual" THEN DOMAIN f ELSE {}
        /\ apnsKey \in IF d = "dual" THEN KeyKinds ELSE {"absent"}
  /\ lastErrorAt = [r \in Routes |-> -1]
  /\ env = FullEnv
  /\ osCall = IdleCall
  /\ la = IdleLa
  /\ memCall = [fn |-> "none"]
  /\ proc = [p \in Procs |-> IdleProc]
  /\ jwtToken = 0
  /\ jwtTokenExpiry = 0
  /\ jwtTokenPromise = 0
  /\ promises = <<>>
  /\ caller = [c \in Callers |-> IdleCaller]

BlankSpec == BlankInit /\ [][CronNext]_vars

\* the scheduler triggers the handler again after its response
CronRetriggered ==
  /\ cron.pc = "done"
  /\ cron' = IdleCron(cron.draft)
  /\ UNCHANGED <<now, lastErrorAt, storeDraft, extVars, signerVars, nonSignerVars>>

\* cycle after cycle over sessions that the app wrote at time 0 and never since
CronRepeatInit == CronInit /\ now = 0

CronRepeatNext == CronNext \/ CronRetriggered

CronRepeatSpec == CronRepeatInit /\ [][CronRepeatNext]_vars

(***************************************************************************)
(* Two invocations of the direct-with-fallback handler at once.  The       *)
(* handler touches the store only through getAllActiveActivities() with    *)
(* the default threshold (part_009 line 39), so an invocation is that call;*)
(* the store commands succeed, so that a failure of an invocation can only *)
(* come from the other one.                                                *)
(***************************************************************************)
OverlapInit == CronInit /\ cron.draft = "dual" /\ apnsKey = "absent"

OverlapNext ==
  \/ \E p \in Procs : KvGetAllActiveActivities(p, DefaultActiveThresholdMs)
  \/ \E p \in Procs : KvSmembers(p, TRUE)
  \/ \E p \in Procs, a \in Acts : KvScan(p, a, TRUE)
  \/ \E p \in Procs : KvDel(p, TRUE)
  \/ \E p \in Procs : KvSrem(p, TRUE)
  \/ \E p \in Procs : KvScanReturns(p)
  \/ Tick

OverlapSpec == OverlapInit /\ [][OverlapNext]_vars

(***************************************************************************)
(* An updateActivityState of one request handler concurrent with a         *)
(* removeActivity of another on the KV store; the handler calls getActivity *)
(* for the removed activityId once the removeActivity has returned.  No     *)
(* storeActivity is called.                                                 *)
(***************************************************************************)
RaceNext ==
  \/ \E a \in Acts, st \in StateSet : KvUpdateActivityState("h1", a, st)
  \/ \E a \in Acts : KvRemoveActivity("cron", a)
  \/ \E a \in Acts :
        /\ proc["cron"].op = "removeActivity"
        /\ proc["cron"].pc = "done"
        /\ proc["cron"].aid = a
        /\ KvGetActivity("h1", a)
  \/ \E p \in Procs, ok \in BOOLEAN : KvGet(p, ok)
  \/ \E p \in Procs, ok \in BOOLEAN : KvSet(p, ok)
  \/ \E p \in Procs, ok \in BOOLEAN : KvDel(p, ok)
  \/ \E p \in Procs, ok \in BOOLEAN : KvSrem(p, ok)
  \/ KvHandlerEnds("h1")
  \/ Tick

RaceSpec == OverlapInit /\ [][RaceNext]_vars

(***************************************************************************)
(* A scan of the KV store (getAllActiveActivities or                       *)
(* cleanupStaleActivities) by the cron handler, concurrent with a          *)
(* storeActivity or an updateActivityState of a request handler.           *)
(***************************************************************************)
\* sessions written at time 0 with a full token
ScanRaceInit ==
  /\ OverlapInit
  /\ now = 0
  /\ \A a \in DOMAIN kvData : kvData[a].state = Charging /\ kvData[a].pushToken = "T1"

\* the scans run with their default thresholds and the store commands succeed
ScanRaceNext ==
  \/ KvGetAllActiveActivities("cron", DefaultActiveThresholdMs)
  \/ KvCleanupStaleActivities("cron", DefaultCleanupThresholdMs)
  \/ \E a \in Acts : KvStoreActivity("h1", a, PlayerOf(a), "T1", Charging)
  \/ \E a \in Acts, st \in StateSet : KvUpdateActivityState("h1", a, st)
  \/ \E p \in Procs : KvSmembers(p, TRUE)
  \/ \E p \in Procs, a \in Acts : KvScan(p, a, TRUE)
  \/ \E p \in Procs : KvScanReturns(p)
  \/ \E p \in Procs : KvGet(p, TRUE)
  \/ \E p \in Procs : KvSet(p, TRUE)
  \/ \E p \in Procs : KvSadd(p, TRUE)
  \/ \E p \in Procs : KvDel(p, TRUE)
  \/ \E p \in Procs : KvSrem(p, TRUE)
  \/ \E p \in Procs : KvHandlerEnds(p)
  \/ Tick

ScanRaceSpec == ScanRaceInit /\ [][ScanRaceNext]_vars

(***************************************************************************)
(* storeActivity of a request handler concurrent with removeActivity of    *)
(* another on the KV store; the store commands succeed.                    *)
(***************************************************************************)
IndexRaceNext ==
  \/ \E a \in Acts, st \in StateSet : KvStoreActivity("h1", a, PlayerOf(a), "T1", st)
  \/ \E a \in Acts : KvRemoveActivity("cron", a)
  \/ \E p \in Procs : KvSet(p, TRUE)
  \/ \E p \in Procs : KvSadd(p, TRUE)
  \/ \E p \in Procs : KvDel(p, TRUE)
  \/ \E p \in Procs : KvSrem(p, TRUE)
  \/ \E p \in Procs : KvHandlerEnds(p)
  \/ Tick

IndexRaceSpec == ScanRaceInit /\ [][IndexRaceNext]_vars

(***************************************************************************)
(* Claims about the session store.                                         *)
(***************************************************************************)
GetAllDone(p) == proc[p].op = "getAllActiveActivities" /\ proc[p].pc = "done"

\* the sessions getAllActiveActivities returned are all younger than the threshold
C9_ReturnsNoStale ==
  /\ memCall.fn = "getAllActiveActivities" =>
        \A s \in memCall.ret : ~IsStale(memCall.t, s, memCall.th)
  /\ \A p \in Handlers : GetAllDone(p) =>
        \A s \in proc[p].active : ~IsStale(proc[p].t0, s, proc[p].th)

C10_UpdateMissing ==
  /\ (memCall.fn = "updateActivityState" /\ ~memCall.existed) =>
        /\ memCall.ret = FALSE
        /\ memCall.unchanged
        /\ memCall.aid \notin DOMAIN sessions
  /\ \A p \in Handlers :
        (proc[p].op = "updateActivityState" /\ proc[p].pc \in {"set", "done"} /\ ~proc[p].found) =>
          /\ proc[p].pc = "done"
          /\ proc[p].ret = "false"
          /\ ~proc[p].wrote
          /\ ~proc[p].failed => proc[p].aid \notin DOMAIN kvData

\* updateState has returned false for an activityId that has no session
C10_Witness ==
  /\ proc["h1"].op = "updateActivityState"
  /\ proc["h1"].pc = "done"
  /\ ~proc["h1"].found
  /\ ~proc["h1"].failed
  /\ proc["h1"].aid \notin DOMAIN kvData
  /\ kvData # Empty

\* C24: a get that follows store(activityId, subscriberId, addressingToken,
\* state) returns a session with exactly those values and the time of the
\* store call, whatever was stored before; in the KV draft a store that
\* returned has left exactly its record under the key and the id in the
\* index, and a get returns the record under the key (null when there is
\* none or when its kv.get failed); every key holds the one session of that
\* activityId.
C24_StoreThenGet ==
  /\ [][(/\ memCall.fn = "storeActivity"
          /\ memCall'.fn = "getActivity"
          /\ memCall'.aid = memCall.aid) =>
           memCall'.ret = [activityId |-> memCall.aid, playerId |-> memCall.pl,
                           pushToken |-> memCall.tok, state |-> memCall.st,
                           lastUpdated |-> memCall.t]]_vars
  /\ [](\A p \in Handlers :
          /\ (proc[p].op = "storeActivity" /\ proc[p].pc = "done" /\ proc[p].ret = "void") =>
               /\ proc[p].aid \in DOMAIN kvData \cap kvIndex
               /\ kvData[proc[p].aid] = proc[p].val
               /\ proc[p].val.activityId = proc[p].aid
               /\ proc[p].val.lastUpdated = proc[p].t0
          /\ (proc[p].op = "getActivity" /\ proc[p].pc = "done") =>
               IF ~proc[p].failed /\ proc[p].aid \in DOMAIN kvData
               THEN proc[p].ret = "session" /\ proc[p].val = kvData[proc[p].aid]
               ELSE proc[p].ret = "null")
  /\ [](/\ \A a \in DOMAIN sessions : sessions[a].activityId = a
        /\ \A a \in DOMAIN kvData : kvData[a].activityId = a)

\* the snapshot of the call before is applied again to the same activityId
SameSnapshotAgain ==
  /\ now' = now
  /\ memCall.fn \in {"storeActivity", "updateActivityState"}
  /\ memCall'.fn \in {"storeActivity", "updateActivityState"}
  /\ memCall'.aid = memCall.aid
  /\ memCall'.st = memCall.st
  /\ memCall'.fn = "storeActivity" =>
       /\ memCall.fn = "storeActivity"
       /\ memCall'.pl = memCall.pl
       /\ memCall'.tok = memCall.tok

\* C25 as stated: applying the same snapshot for the same activityId a second
\* time leaves the store as the first application left it.
C25_Original == [][SameSnapshotAgain => sessions' = sessions]_vars

\* C25: applying the same snapshot for the same activityId a second time
\* leaves the store as the first application left it, except that the
\* lastUpdated of that session is the time of the second application (when
\* the activityId has no session, updateState leaves the store unchanged
\* both times).
C25_Amended ==
  [][SameSnapshotAgain =>
       sessions' = IF memCall'.aid \in DOMAIN sessions
                   THEN [sessions EXCEPT ![memCall'.aid].lastUpdated = now]
                   ELSE sessions]_vars

\* a snapshot stored at time 0 has been applied again by updateState one tick
\* later
C25_Witness ==
  /\ memCall.fn = "updateActivityState"
  /\ memCall.existed
  /\ memCall.t = 1
  /\ sessions[memCall.aid].state = memCall.st
  /\ sessions[memCall.aid].lastUpdated = 1
  /\ now = 1

\* a get has returned the session of a second store for the same activityId,
\* made later and with another token
C24_Witness ==
  /\ memCall.fn = "getActivity"
  /\ memCall.ret # NoSession
  /\ memCall.ret.pushToken = "T1"
  /\ memCall.ret.lastUpdated = 1
  /\ now = 2

\* C26: remove(activityId) leaves no session of that activityId and every
\* other session as it was; a remove for an activityId that has no session
\* (the second of two removes, or a remove of an unknown id) leaves the store
\* unchanged; the KV removeActivity never throws, also when its commands fail,
\* and when they succeed the key and the index entry are gone, the other keys
\* and index entries unchanged.
C26_RemoveIdempotent ==
  /\ [][(memCall'.fn = "removeActivity" /\ now' = now) =>
           /\ memCall'.aid \notin DOMAIN sessions'
           /\ \A a \in Acts \ {memCall'.aid} :
                 /\ a \in DOMAIN sessions' <=> a \in DOMAIN sessions
                 /\ a \in DOMAIN sessions => sessions'[a] = sessions[a]
           /\ memCall'.aid \notin DOMAIN sessions => sessions' = sessions]_vars
  /\ [](\A p \in Handlers :
          (proc[p].op = "removeActivity" /\ proc[p].pc = "done") =>
             /\ proc[p].ret = "void"
             /\ ~proc[p].failed => /\ proc[p].aid \notin DOMAIN kvData
                                   /\ proc[p].aid \notin kvIndex)
  /\ [][\A p \in Handlers :
          (proc[p].op = "removeActivity" /\ proc[p].pc \in {"del", "srem"}) =>
             /\ \A a \in Acts \ {proc[p].aid} :
                   /\ a \in DOMAIN kvData' <=> a \in DOMAIN kvData
                   /\ a \in DOMAIN kvData => kvData'[a] = kvData[a]
                   /\ a \in kvIndex' <=> a \in kvIndex
             /\ (proc[p].aid \notin DOMAIN kvData /\ proc[p].aid \notin kvIndex) =>
                   kvData' = kvData /\ kvIndex' = kvIndex]_vars

\* a remove has been called for an activityId that has no session (any more)
\* while another session is stored
C26_Witness ==
  /\ memCall.fn = "removeActivity"
  /\ ~memCall.removed
  /\ memCall.aid \notin DOMAIN sessions
  /\ sessions # Empty

\* C30 as stated: a getActivity called after removeActivity of the same
\* activityId has returned with both of its commands done, with no
\* storeActivity in between, returns null when its kv.get succeeds, whatever
\* updateActivityState calls ran concurrently with the removeActivity.
C30_Original ==
  (/\ proc["cron"].op = "removeActivity"
   /\ proc["cron"].pc = "done"
   /\ ~proc["cron"].failed
   /\ proc["h1"].op = "getActivity"
   /\ proc["h1"].pc = "done"
   /\ proc["h1"].aid = proc["cron"].aid
   /\ ~proc["h1"].failed) => proc["h1"].ret = "null"

\* calls of sendLiveActivityUpdate on one client, interleaved at their awaits
SendNext ==
  \/ \E c \in Callers : SendLiveActivityUpdate(c)
  \/ \E p \in 1..MaxSignOps, ok \in BOOLEAN : ImportKeySettles(p, ok)
  \/ \E p \in 1..MaxSignOps, ok \in BOOLEAN : SignSettles(p, ok)
  \/ \E c \in Callers : CallerResumes(c)
  \/ \E c \in Callers : SendFetches(c)
  \/ \E c \in Callers : SendCatches(c)
  \/ \E c \in Callers, status \in Statuses, id \in ApnsIds : SendResponds(c, status, id)
  \/ \E c \in Callers : SendFetchThrows(c)
  \/ \E c \in Callers, ok \in BOOLEAN : SendReadsBody(c, ok)
  \/ \E c \in Callers : SendReturns(c)

SendSpec == SignerInit /\ [][SendNext]_vars

\* the client constructed under any setting of the APNs variables of process.env
ConfigInit ==
  /\ now = 0
  /\ storeDraft = "kv"
  /\ sessions = Empty
  /\ memCall = [fn |-> "none"]
  /\ kvData = Empty
  /\ kvIndex = {}
  /\ proc = [p \in Procs |-> IdleProc]
  /\ cron = IdleCron("none")
  /\ lastErrorAt = [r \in Routes |-> -1]
  /\ env \in {e \in [EnvNames -> BOOLEAN] : e["ONESIGNAL_APP_ID"] /\ e["ONESIGNAL_REST_API_KEY"]}
  /\ osCall = IdleCall
  /\ la = IdleLa
  /\ apnsKey \in KeyKinds
  /\ jwtToken = 0
  /\ jwtTokenExpiry = 0
  /\ jwtTokenPromise = 0
  /\ promises = <<>>
  /\ caller = [c \in Callers |-> IdleCaller]

ConfigSpec == ConfigInit /\ [][SendNext]_vars

SignerSpec == SignerInit /\ [][SignerNext]_vars

\* The crypto promises settle and the event loop runs the continuations of
\* settled promises: weak fairness on the settling and resuming steps.
SignerFairness ==
  /\ WF_vars(\E p \in 1..MaxSignOps, ok \in BOOLEAN : ImportKeySettles(p, ok))
  /\ WF_vars(\E p \in 1..MaxSignOps, ok \in BOOLEAN : SignSettles(p, ok))
  /\ \A c \in Callers : WF_vars(CallerResumes(c))

SignerLiveSpec == SignerInit /\ [][SignerNext]_vars /\ SignerFairness

(***************************************************************************)
(* Claims about the token signer.                                          *)
(***************************************************************************)
PromisesOfEpoch(e) == {p \in 1..Len(promises) : promises[p].epoch = e}

\* a caller that missed the cache and got past the key checks
ColdCaller(c) == caller[c].cold /\ caller[c].p # 0

\* C1: all generateJWT calls that start while no valid token is cached and
\* before the signing in flight has completed share one signing operation:
\* between two completions at most one signing is started, and every such
\* caller holds exactly that one.
C1_SingleFlight ==
  /\ \A e \in 0..Len(promises) : Cardinality(PromisesOfEpoch(e)) <= 1
  /\ \A c \in Callers : ColdCaller(c) =>
        /\ caller[c].p \in 1..Len(promises)
        /\ PromisesOfEpoch(caller[c].epoch) = {caller[c].p}
  /\ \A c, d \in Callers :
        (ColdCaller(c) /\ ColdCaller(d) /\ caller[c].epoch = caller[d].epoch)
          => caller[c].p = caller[d].p

\* two callers entered on a cold cache before the first signing completed
C1_Witness ==
  /\ \A c \in {1, 2} : ColdCaller(c) /\ caller[c].pc = "wait" /\ caller[c].epoch = 0
  /\ Len(promises) = 1
  /\ ~Settled(1)

C2_Safety ==
  \A c \in Callers :
    /\ caller[c].pc = "wait" => caller[c].p \in 1..Len(promises)
    /\ (caller[c].pc = "returned" /\ caller[c].cold) =>
          /\ caller[c].p \in 1..Len(promises)
          /\ promises[caller[c].p].stage = "fulfilled"
          /\ caller[c].token = caller[c].p
    /\ (caller[c].pc = "threw" /\ caller[c].err = "sign") =>
          /\ caller[c].p \in 1..Len(promises)
          /\ promises[caller[c].p].stage = "rejected"
    /\ (caller[c].p # 0 /\ Settled(caller[c].p) /\ promises[caller[c].p].stage = "rejected")
          => caller[c].pc \in {"wait", "threw"}

\* C2: every caller that awaits a signing operation gets that operation's
\* outcome, the token it produced or its failure, and every such caller
\* does get an outcome.
C2_SharedOutcome ==
  /\ []C2_Safety
  /\ \A c \in Callers :
        (caller[c].pc = "wait") ~> (caller[c].pc \in {"returned", "threw"})

\* both callers got the token of the one signing they shared
C2_Witness ==
  /\ \A c \in {1, 2} : caller[c].pc = "returned" /\ caller[c].cold /\ caller[c].p = 1
  /\ caller[1].token = caller[2].token

\* both callers got the failure of the one signing they shared
C2_WitnessFailure ==
  \A c \in {1, 2} : caller[c].pc = "threw" /\ caller[c].err = "sign" /\ caller[c].p = 1

\* C14: generateJWT returns the cached token, starting no signing, exactly
\* when a token is cached and now < expiry - 5 minutes; otherwise the caller
\* gets no cached token: it waits for a signing (or fails on the key).  A
\* token returned from the cache was issued less than 55 minutes ago.
C14_CacheRule ==
  [][\A c \in Callers :
       (caller[c].pc = "idle" /\ caller'[c].pc # "idle") =>
         LET valid == jwtToken # 0 /\ now * TickSec < jwtTokenExpiry - 5 * 60
             cached == /\ caller'[c].pc = "returned"
                       /\ caller'[c].token = jwtToken
                       /\ promises' = promises IN
         /\ cached <=> valid
         /\ ~valid => caller'[c].pc \in {"wait", "threw"}
         /\ (~valid /\ caller'[c].pc = "wait") =>
               /\ caller'[c].p \in 1..Len(promises')
               /\ ~(promises'[caller'[c].p].stage \in {"fulfilled", "rejected"})
         /\ cached =>
               /\ jwtToken \in 1..Len(promises)
               /\ jwtTokenExpiry = promises[jwtToken].iat + 60 * 60
               /\ now * TickSec < promises[jwtToken].iat + 60 * 60 - 5 * 60]_vars

\* one caller holds a token it got from the cache, and a second signing was
\* started for a caller that came 55 minutes or more after the first token
\* was issued
C14_Witness ==
  /\ \E c \in Callers : caller[c].pc = "returned" /\ ~caller[c].cold /\ caller[c].token = 1
  /\ Len(promises) = 2
  /\ promises[1].stage = "fulfilled"
  /\ promises[2].iat >= promises[1].iat + 60 * 60 - 5 * 60

\* a caller of generateJWT got an error
Threw(c) == caller[c].pc = "threw"

\* C15 as stated: generateJWT fails with a configuration error when the key
\* is absent, malformed or not in the expected format, and with a signing
\* error only when the signing operation itself failed.
C15_Original ==
  \A c \in Callers :
    /\ (Threw(c) /\ caller[c].err = "config") => apnsKey # "pem"
    /\ (Threw(c) /\ caller[c].err = "sign") =>
          /\ caller[c].p \in 1..Len(promises)
          /\ promises[caller[c].p].cause = "sign"

\* C15 amended: generateJWT fails with a configuration error exactly when
\* the credentials are absent or the key text has no PEM private key header;
\* with a key that has the header it fails only with the signing error
\* ("Failed to sign JWT"), which stands for a key that could not be imported
\* as well as for a signing that failed.  The two kinds of error differ (by
\* their message), the two causes of the signing error do not.
C15_Amended ==
  \A c \in Callers :
    /\ Threw(c) => caller[c].err \in {"config", "sign"}
    /\ (Threw(c) /\ caller[c].err = "config") => (apnsKey # "pem" /\ caller[c].p = 0)
    /\ (Threw(c) /\ caller[c].err = "sign") =>
          /\ apnsKey = "pem"
          /\ caller[c].p \in 1..Len(promises)
          /\ promises[caller[c].p].stage = "rejected"
          /\ promises[caller[c].p].cause \in {"import", "sign"}
    /\ apnsKey # "pem" => (caller[c].pc \in {"idle", "threw"} /\ promises = <<>>)

\* a caller got the signing error for a key that could not be imported, and
\* another one for a signing that failed
C15_Witness ==
  \E c, d \in Callers :
    /\ Threw(c) /\ caller[c].err = "sign" /\ promises[caller[c].p].cause = "import"
    /\ Threw(d) /\ caller[d].err = "sign" /\ promises[caller[d].p].cause = "sign"

(***************************************************************************)
(* Claims about the delivery orchestrator.                                 *)
(***************************************************************************)
\* a cycle has run to its response
CycleEnded == cron.pc = "done" /\ cron.status = 200

\* the sessions the cycle listed as active, by their charging flag
ListedCharging == {s \in cron.listed : s.state.isCharging}
ListedStopped == {s \in cron.listed : ~s.state.isCharging}

\* C3 as stated: every active session whose isCharging is false at the start
\* of a cycle is absent from the store when the cycle ends, whether the end
\* send succeeded or failed.
C3_Original ==
  CycleEnded => \A s \in ListedStopped : s.activityId \notin DOMAIN CronStore

\* C4 as stated: for a session with isCharging false, one cycle makes exactly
\* one end call to the provider client and no update push, direct or provider.
C4_Original ==
  CycleEnded =>
    \A s \in ListedStopped :
      /\ cron.calls[s.activityId].end = 1
      /\ cron.calls[s.activityId].update = 0
      /\ cron.calls[s.activityId].direct = 0

\* C5: when the direct client is configured and its update for a session
\* succeeds, the outcome is recorded with method apns (direct) and no provider
\* update is attempted for that session in the cycle; the run counts it as a
\* direct success.
C5_DirectSuccess ==
  /\ \A a \in cron.directOk :
        /\ a \in DOMAIN cron.results
        /\ cron.results[a].success
        /\ cron.results[a].method = "apns"
        /\ cron.calls[a].update = 0
        /\ cron.calls[a].direct = 1
  /\ (CycleEnded /\ cron.draft = "dual" /\ cron.listed # {}) =>
        cron.summary.apnsCount = Cardinality(cron.directOk)

\* a cycle has ended in which the direct update of a charging session succeeded
C5_Witness ==
  /\ CycleEnded
  /\ \E s \in ListedCharging : s.activityId \in cron.directOk /\ s.pushToken = "T1"

\* the sessions of the cycle that are charging and had no successful direct
\* update: the direct client is not configured, or its update failed
NeedsProvider == {s \in ListedCharging : s.activityId \notin cron.directOk}

\* a provider update that returned ok is counted as a provider success and
\* not as a direct success
ProviderCounted(s) ==
  s.activityId \in cron.providerOk =>
    /\ cron.results[s.activityId].success
    /\ cron.results[s.activityId].method # "apns"
    /\ cron.draft = "dual" => cron.results[s.activityId].method = "onesignal"

C7_Original ==
  CycleEnded =>
    /\ \A a \in DOMAIN CronStore :
          /\ a \in DOMAIN cron.start
          /\ CronStore[a].state = cron.start[a].state
          /\ CronStore[a].lastUpdated = cron.start[a].lastUpdated
    /\ \A a \in DOMAIN cron.results : ~cron.results[a].success => a \in DOMAIN CronStore

\* the threshold below which the handler lists a session: the explicit 10
\* minutes of the provider-only handler, the default of getAllActiveActivities
\* in the direct-with-fallback handler
ListThresholdMs ==
  IF cron.draft = "provider" THEN CronThresholdMs ELSE DefaultActiveThresholdMs

\* the sessions that were at least th milliseconds old when the cycle started
OldAtStart(th) ==
  {a \in DOMAIN cron.start : (cron.t0 - cron.start[a].lastUpdated) * TickMs >= th}

Resulted(c) == caller[c].pc = "resulted"

\* C16: sendLiveActivityUpdate never propagates an exception: whatever the
\* token acquisition and the transport do (success, non-success status,
\* thrown error) the call ends with a result value, and in every failing
\* case that value has success = false and carries an error.
C16_NeverPropagates ==
  \A c \in Callers :
    /\ caller[c].pc # "propagated"
    /\ Resulted(c) =>
         /\ caller[c].result.success <=> caller[c].result.error = NoError
         /\ caller[c].err # "none" =>
              /\ ~caller[c].result.success
              /\ caller[c].result.error.kind = caller[c].err
         /\ caller[c].text = "threw" => ~caller[c].result.success
         /\ (caller[c].requests = 1 /\ caller[c].status = 0) =>
              /\ ~caller[c].result.success
              /\ caller[c].result.error.kind = "fetch failed"
         /\ (caller[c].status # 0 /\ ~(caller[c].status \in 200..299)) =>
              ~caller[c].result.success

C16_Witness ==
  \E c, d \in Callers :
    /\ Resulted(c) /\ caller[c].err = "sign" /\ ~caller[c].result.success
    /\ Resulted(d) /\ caller[d].requests = 1 /\ caller[d].result.error.kind = "fetch failed"

\* C17 as stated: the result is a success, with the identifier of the
\* response header, exactly when the gateway answered 200, and for every
\* other status it is a failure whose error carries the status and the body.
C17_Original ==
  \A c \in Callers :
    (Resulted(c) /\ caller[c].status # 0) =>
      /\ caller[c].result.success <=> caller[c].status = 200
      /\ caller[c].result.success => caller[c].result.responseId = caller[c].apnsId
      /\ ~caller[c].result.success =>
           caller[c].result.error =
             [kind |-> "APNs error", status |-> caller[c].status, body |-> BodyText]

\* C17: the result is a success exactly when the gateway status is in
\* 200-299; the identifier is the apns-id header, or 'unknown' when the
\* response has none; for every other status the result is a failure whose
\* error carries the status and the body text when the body could be read,
\* and the read error otherwise.
C17_Amended ==
  \A c \in Callers :
    (Resulted(c) /\ caller[c].status # 0) =>
      /\ caller[c].result.success <=> caller[c].status \in 200..299
      /\ caller[c].result.success =>
           caller[c].result.responseId =
             (IF caller[c].apnsId = "" THEN "unknown" ELSE caller[c].apnsId)
      /\ (~caller[c].result.success /\ caller[c].text # "threw") =>
           caller[c].result.error =
             [kind |-> "APNs error", status |-> caller[c].status, body |-> caller[c].text]
      /\ (~caller[c].result.success /\ caller[c].text = "threw") =>
           caller[c].result.error = [kind |-> "body failed", status |-> 0, body |-> ""]

C17_Witness ==
  \E c, d \in Callers :
    /\ Resulted(c) /\ caller[c].status = 204 /\ caller[c].result.success
    /\ caller[c].result.responseId = "unknown"
    /\ Resulted(d) /\ caller[d].status = 410 /\ caller[d].result.error.status = 410

\* C18: a call of sendLiveActivityUpdate issues at most one request to the
\* gateway, whatever the response or the error: a call that has fetched has
\* fetched once, and a call that ended without a token has fetched never.
C18_SingleRequest ==
  \A c \in Callers :
    /\ caller[c].requests <= 1
    /\ caller[c].pc \in {"fetch", "text"} => caller[c].requests = 1
    /\ (Resulted(c) /\ caller[c].token = 0) => caller[c].requests = 0

C18_Witness ==
  \E c, d \in Callers :
    /\ Resulted(c) /\ caller[c].status = 410 /\ caller[c].requests = 1
    /\ Resulted(d) /\ caller[d].result.error.kind = "fetch failed" /\ caller[d].requests = 1

(***************************************************************************)
(* Claims about the trigger of a cycle.                                    *)
(***************************************************************************)
HeaderMismatch(cr) == cr.secret # "" /\ cr.header # "Bearer " \o cr.secret

\* C20: a trigger whose authorization header differs from the bearer form of
\* the configured secret is answered 401 in the step that receives it, with
\* no store read or change, no token signing and no push, and nothing
\* happens after the 401; a cycle that runs with a secret configured was
\* triggered with the matching header.
C20_Unauthorized ==
  /\ [][(cron.pc = "idle" /\ cron'.pc # "idle" /\ HeaderMismatch(cron')) =>
          /\ cron'.pc = "done" /\ cron'.status = 401
          /\ cron'.listed = {} /\ cron'.calls = cron.calls /\ cron'.results = Empty
          /\ UNCHANGED <<sessions, kvData, kvIndex, proc, memCall, lastErrorAt,
                         caller, promises>>]_vars
  /\ [][cron.status = 401 =>
          UNCHANGED <<cron, sessions, kvData, kvIndex, proc, memCall, lastErrorAt,
                      caller, promises>>]_vars
  /\ [](cron.status = 401 =>
          /\ cron.pc = "done" /\ proc["cron"] = IdleProc
          /\ \A a \in Acts : cron.calls[a] = NoCalls)
  /\ []((cron.pc # "idle" /\ cron.status # 401 /\ cron.secret # "") =>
          cron.header = "Bearer " \o cron.secret)

C20_Witness ==
  /\ cron.draft = "dual" /\ cron.status = 401
  /\ cron.secret = "S1" /\ cron.header = "Bearer S2"
  /\ kvData # Empty

(***************************************************************************)
(* Claims about the failures inside a cycle of the direct-with-fallback    *)
(* handler.                                                                *)
(***************************************************************************)
LoopEnded == cron.draft = "dual" /\ cron.listed # {} /\ cron.pc \in {"silent", "done"}

ListedIds == {s.activityId : s \in cron.listed}

\* C12: in a cycle every listed session gets exactly one recorded outcome:
\* no session is recorded twice, a session whose round is over is recorded
\* once, at the end of the loop every listed session is recorded once and the
\* summary counts them all; a failure for one session never ends the run
\* with an error response in place of the summary.
C12_OneOutcomeEach ==
  cron.draft = "dual" =>
    /\ \A a \in Acts : cron.calls[a].recorded <= 1
    /\ \A a \in Acts : cron.calls[a].recorded = 1 <=> a \in DOMAIN cron.results
    /\ cron.pc \notin {"idle", "list", "done"} =>
         \A a \in ListedIds : a \notin cron.todo => cron.calls[a].recorded = 1
    /\ cron.listed # {} => cron.status \in {0, 200}
    /\ LoopEnded =>
         /\ \A a \in ListedIds : cron.calls[a].recorded = 1
         /\ cron.summary.successful + cron.summary.failed = Cardinality(ListedIds)
    /\ (LoopEnded /\ cron.pc = "done") => cron.status = 200

C12_Witness ==
  /\ LoopEnded /\ cron.status = 200
  /\ \E a, b \in ListedIds :
       ~cron.results[a].success /\ cron.results[b].success

SignFailed(a) == cron.calls[a].directError \in {"config", "sign"}

\* C13 as stated: at the end of the loop every session whose direct update
\* failed on the key or on the signing has had its provider update attempted,
\* and the run ends with the summary.
C13_Original ==
  /\ (cron.draft = "dual" /\ cron.listed # {}) => cron.status \in {0, 200}
  /\ LoopEnded => \A a \in ListedIds : SignFailed(a) => cron.calls[a].update = 1

\* C13: at the end of the loop every session whose direct update failed on
\* the key or on the signing, and whose push token has at least 32
\* characters, has had exactly one provider update attempted; with a shorter
\* token it has a recorded failure and no provider request; in both cases
\* the run ends with the summary, never with an error response.
C13_Amended ==
  /\ (cron.draft = "dual" /\ cron.listed # {}) => cron.status \in {0, 200}
  /\ LoopEnded =>
       \A a \in ListedIds :
         SignFailed(a) =>
           /\ cron.calls[a].recorded = 1
           /\ a \notin cron.directOk
           /\ IF TokLen(ListedSession(cron, a).pushToken) >= 32
                THEN cron.calls[a].update = 1
                ELSE cron.calls[a].update = 0 /\ ~cron.results[a].success

C13_Witness ==
  /\ LoopEnded /\ cron.status = 200
  /\ \E a, b \in ListedIds :
       /\ cron.calls[a].directError = "sign" /\ cron.calls[a].update = 1
       /\ a \in cron.providerOk
       /\ cron.calls[b].directError = "sign" /\ cron.calls[b].update = 0

(***************************************************************************)
(* Claims about cycle after cycle.                                         *)
(***************************************************************************)
\* C11 as stated, for sessions written at time 0 and never since: a cycle
\* that started once their age had reached the staleness threshold (the
\* largest one in use, 15 minutes) and that ended without a failed store
\* command leaves none of them in the store.
C11_Original ==
  (CycleEnded /\ ~cron.kvFailed /\ cron.t0 * TickMs >= 15 * 60 * 1000) =>
    CronStore = Empty

(***************************************************************************)
(* Claims about overlapping invocations.                                   *)
(***************************************************************************)
BothReturned == \A p \in Procs : proc[p].pc = "done"

\* the start of the invocation that started last
LastStart == CHOOSE t \in {proc[p].t0 : p \in Procs} : \A p \in Procs : proc[p].t0 <= t

Started(p) == proc[p].pc # "idle"

\* C19: two overlapping invocations leave the store as the two leave it one
\* after the other: no session is added or changed, a session is removed only
\* if it was 15 minutes old when an invocation started, and when both have
\* returned the store holds no session that was 15 minutes old when the
\* later one started and the index matches the data; neither invocation
\* ends in its catch block, and each returns only sessions that were fresh
\* at its start.
C19_Overlap ==
  /\ [][/\ DOMAIN kvData' \subseteq DOMAIN kvData
        /\ kvIndex' \subseteq kvIndex
        /\ \A a \in DOMAIN kvData :
             IF a \in DOMAIN kvData'
             THEN kvData'[a] = kvData[a]
             ELSE \E p \in Procs :
                    /\ Started(p)
                    /\ (proc[p].t0 - kvData[a].lastUpdated) * TickMs >= 15 * 60 * 1000]_vars
  /\ [](\A p \in Procs :
          /\ ~proc[p].failed
          /\ proc[p].ret # "caught"
          /\ \A s \in proc[p].active :
               (proc[p].t0 - s.lastUpdated) * TickMs < 15 * 60 * 1000)
  /\ [](BothReturned =>
          /\ kvIndex = DOMAIN kvData
          /\ \A a \in DOMAIN kvData :
               (LastStart - kvData[a].lastUpdated) * TickMs < 15 * 60 * 1000)

\* one invocation has deleted the data of a stale session and not yet its
\* index entry, while the other, which read the index before, is about to
\* read that session
C19_Witness ==
  \E p, q \in Procs :
    /\ p # q
    /\ proc[p].pc = "srem"
    /\ proc[q].pc = "scan"
    /\ proc[p].aid \in proc[q].todo
    /\ proc[p].aid \notin DOMAIN kvData
    /\ kvData # Empty

\* C21: when a cycle has ended, the counts of its summary add up to the
\* number of sessions it listed: direct successes + provider successes +
\* failures in the dual-channel handler, where the successes are the direct
\* and the provider successes together and every listed session was recorded
\* once; successes + failures in the provider-only handler, which has no
\* direct channel and whose successes are all provider successes.
C21_SummaryCounts ==
  CycleEnded =>
    /\ cron.draft = "dual" =>
          /\ cron.summary.apnsCount + cron.summary.onesignalCount + cron.summary.failed
               = Cardinality({s.activityId : s \in cron.listed})
          /\ cron.summary.successful = cron.summary.apnsCount + cron.summary.onesignalCount
          /\ \A s \in cron.listed : cron.calls[s.activityId].recorded = 1
    /\ cron.draft = "provider" =>
          /\ cron.summary.successful + cron.summary.failed
               = Cardinality({s.activityId : s \in cron.listed})
          /\ cron.summary.successful = Cardinality(cron.providerOk)
          /\ cron.summary.apnsCount = 0

\* a cycle over two sessions has ended with one direct success and one
\* provider success
C21_Witness ==
  /\ CycleEnded
  /\ cron.draft = "dual"
  /\ cron.summary.apnsCount = 1
  /\ cron.summary.onesignalCount = 1
  /\ cron.summary.failed = 0

\* C27 as stated: when callOneSignal has returned after a response of the
\* provider, the result has ok = true if the status is 2xx, and otherwise
\* ok = false with the status of the response and its body, parsed or raw.
C27_Original ==
  (osCall.pc = "done" /\ osCall.status # 0) =>
     IF osCall.status >= 200 /\ osCall.status <= 299
     THEN osCall.result.ok
     ELSE /\ ~osCall.result.ok
          /\ osCall.result.status = osCall.status
          /\ osCall.result.details = IF osCall.text = "json" THEN "parsed" ELSE osCall.text

\* C29: the entry of an operation kind in lastErrorAt moves only to the
\* current time and only when that kind has no entry or its entry is more
\* than 5 minutes old, so two logged errors of one kind are more than 5
\* minutes apart; whether a failed call logs its error depends on the entry of
\* its own kind alone, and it leaves the entry of the other kind as it was.
C29_Throttle ==
  /\ [][\A r \in Routes :
          lastErrorAt'[r] # lastErrorAt[r] =>
            /\ lastErrorAt'[r] = now
            /\ lastErrorAt[r] = -1 \/ (now - lastErrorAt[r]) * TickMs > 5 * 60 * 1000]_vars
  /\ [][(osCall.pc \in {"fetch", "text"} /\ osCall'.pc = "done" /\ ~osCall'.result.ok) =>
          LET r == osCall.route IN
          /\ osCall'.logged <=>
                (lastErrorAt[r] = -1 \/ (now - lastErrorAt[r]) * TickMs > 5 * 60 * 1000)
          /\ osCall'.logged => lastErrorAt'[r] = now
          /\ \A o \in Routes \ {r} : lastErrorAt'[o] = lastErrorAt[o]]_vars

\* an update has failed 5 minutes after the last logged update error and its
\* error log was suppressed, while an end error was logged at that same time
C29_Witness ==
  /\ osCall.pc = "done"
  /\ osCall.route = "update"
  /\ ~osCall.result.ok
  /\ ~osCall.logged
  /\ now = 2
  /\ lastErrorAt["update"] = 1
  /\ lastErrorAt["end"] = 2

C22_Original ==
  \A s \in cron.listed :
    (/\ cron.draft \in {"dual", "provider"}
     /\ cron.draft = "provider" => cron.creds
     /\ cron.calls[s.activityId].update >= 1
     /\ s.pushToken # "") =>
       cron.calls[s.activityId].payload.push_token = s.pushToken

\* C23 as stated: every update request body built from a stored session, for
\* the direct client and for the provider client, carries a
\* timeToFullMinutes that is not negative, also when the stored value is.
C23_Original ==
  \A s \in cron.listed :
    LET c == cron.calls[s.activityId] IN
    /\ (cron.draft = "dual" /\ c.content # NoPayload) =>
          c.content.content_state.timeToFullMinutes >= 0
    /\ (cron.draft \in {"dual", "provider"} /\ c.payload # NoPayload /\ c.update >= 1) =>
          c.payload.event_updates.timeToFullMinutes >= 0

\* C33: an updateState for an activityId that has a session leaves the set of
\* stored ids as it was, every other session as it was, and of that session
\* changes only the state (to the given one) and lastUpdated (to the time of
\* the call); in the KV draft the write of updateActivityState leaves the
\* index and every other record as they were and keeps activityId, playerId
\* and pushToken of the record it replaces.
C33_UpdateFrame ==
  /\ [][(/\ memCall'.fn = "updateActivityState"
          /\ now' = now
          /\ memCall'.aid \in DOMAIN sessions) =>
           /\ DOMAIN sessions' = DOMAIN sessions
           /\ \A a \in DOMAIN sessions \ {memCall'.aid} : sessions'[a] = sessions[a]
           /\ sessions'[memCall'.aid] =
                [activityId |-> sessions[memCall'.aid].activityId,
                 playerId |-> sessions[memCall'.aid].playerId,
                 pushToken |-> sessions[memCall'.aid].pushToken,
                 state |-> memCall'.st,
                 lastUpdated |-> now]]_vars
  /\ [][\A p \in Handlers :
          (proc[p].op = "updateActivityState" /\ proc[p].pc \in {"get", "set"}) =>
             /\ kvIndex' = kvIndex
             /\ DOMAIN kvData' = DOMAIN kvData
             /\ \A a \in DOMAIN kvData \ {proc[p].aid} : kvData'[a] = kvData[a]
             /\ (proc[p].aid \in DOMAIN kvData /\ kvData' # kvData) =>
                  /\ proc[p].pc = "set"
                  /\ kvData'[proc[p].aid] =
                       [activityId |-> kvData[proc[p].aid].activityId,
                        playerId |-> kvData[proc[p].aid].playerId,
                        pushToken |-> kvData[proc[p].aid].pushToken,
                        state |-> proc[p].st,
                        lastUpdated |-> kvData'[proc[p].aid].lastUpdated]]_vars

\* an updateState has changed the state of one of two stored sessions, whose
\* push token it kept
C33_Witness ==
  /\ memCall.fn = "updateActivityState"
  /\ memCall.existed
  /\ sessions[memCall.aid].pushToken = "T1"
  /\ sessions[memCall.aid].state = Stopped
  /\ sessions[memCall.aid].lastUpdated = 1
  /\ \E a \in DOMAIN sessions : a # memCall.aid /\ sessions[a].lastUpdated = 0

\* C35: the dual-channel handler makes no call of the direct client, and
\* builds no direct request, for a listed session whose pushToken is missing
\* or consists of white space; such a session gets a failure recorded.
C35_NoDirectWithoutToken ==
  \A s \in cron.listed :
    (cron.draft = "dual" /\ s.pushToken \in {"", "  "}) =>
       /\ cron.calls[s.activityId].direct = 0
       /\ cron.calls[s.activityId].content = NoPayload
       /\ cron.calls[s.activityId].recorded = 1 => ~cron.results[s.activityId].success

\* with the direct client configured, a cycle has recorded the failure of a
\* session with a blank token and has made a direct call for another session
C35_Witness ==
  /\ cron.draft = "dual"
  /\ isConfigured
  /\ \E s \in cron.listed :
       /\ s.pushToken = "  "
       /\ cron.calls[s.activityId].recorded = 1
  /\ \E s \in cron.listed : cron.calls[s.activityId].direct = 1

\* C37: a step in which a signing operation is rejected, or in which a call
\* of generateJWT throws, leaves jwtToken and jwtTokenExpiry as they were; a
\* rejected operation never stays in jwtTokenPromise, so a call that waits
\* for a promise waits for one that has not failed: the one in flight or a
\* new one.
C37_FailureLeavesNoTrace ==
  /\ [][\A p \in 1..Len(promises) :
          (promises[p].stage # "rejected" /\ promises'[p].stage = "rejected") =>
             /\ jwtToken' = jwtToken
             /\ jwtTokenExpiry' = jwtTokenExpiry
             /\ jwtTokenPromise' = 0]_vars
  /\ [][\A c \in Callers :
          (caller[c].pc # "threw" /\ caller'[c].pc = "threw") =>
             /\ jwtToken' = jwtToken
             /\ jwtTokenExpiry' = jwtTokenExpiry
             /\ jwtTokenPromise' = jwtTokenPromise]_vars
  /\ [][\A c \in Callers :
          (caller[c].pc = "idle" /\ caller'[c].pc = "wait") =>
             promises'[caller'[c].p].stage \in {"import", "sign"}]_vars
  /\ [](jwtTokenPromise # 0 => promises[jwtTokenPromise].stage \in {"import", "sign"})

\* after a signing operation was rejected, a call has started a second one
\* and waits for it
C37_Witness ==
  /\ Len(promises) = 2
  /\ promises[1].stage = "rejected"
  /\ promises[1].cause = "sign"
  /\ jwtToken = 0
  /\ jwtTokenPromise = 2
  /\ \E c \in Callers : caller[c].pc = "wait" /\ caller[c].p = 2

\* C31 as stated: when the kv.del of a scan (getAllActiveActivities or
\* cleanupStaleActivities) removes a record, that record is stale at that
\* moment: its age is at least the threshold of the scan.
C31_Original ==
  [][\A p \in Procs :
       (/\ proc[p].op \in {"getAllActiveActivities", "cleanupStaleActivities"}
        /\ proc[p].pc = "del"
        /\ proc[p].aid \in DOMAIN kvData
        /\ proc[p].aid \notin DOMAIN kvData') =>
          (now - kvData[proc[p].aid].lastUpdated) * TickMs >= proc[p].th]_vars

\* C32 as stated: whenever no store function is running, the index holds
\* exactly the activityIds that have a record.
C32_Original ==
  (\A p \in Procs : proc[p].pc \in {"idle", "done"}) => kvIndex = DOMAIN kvData


(***************************************************************************)
(* Session lifecycle endpoints: POST /api/la/start                         *)
(* (src/app/api/la/start/route.ts lines 7-162), POST /api/la/update        *)
(* (src/app/api/la/update/route.ts lines 19-80), POST /api/la/end          *)
(* (src/app/api/la/end/route.ts lines 7-175) and the draft of              *)
(* POST /api/la/end that sends through callOneSignal (src/unnamed/part_006 *)
(* lines 86-176).  They call the in-memory draft of the store.  One        *)
(* request is followed at a time; `await request.json()` of the body and   *)
(* the requests of the tagging block, which touch nothing shared, are      *)
(* folded into the step that follows them.                                 *)
(***************************************************************************)
LaOps == {"start", "update", "end", "endDraft"}

\* the X-PETL-Secret header of the request: "" is no header
LaHeaders == {"", "S1", "S2"}

\* the request as the handler sees it: PETL_SERVER_SECRET ("" is unset), the
\* header, and the body: activityId, laPushToken, contentState, meta.playerId
\* ("" and NoState are missing fields)
LaRequests ==
  [secret : Secrets, header : LaHeaders, aid : {"", "A1"}, tok : StoreTokens,
   st : {Charging, NoState}, player : {"", "P1"}]

\* the handler that lets every request through
UnauthorizedNever(req) == FALSE

\* !expectedSecret || secret !== expectedSecret (start/route.ts line 15,
\* end/route.ts line 12)
Unauthorized(req) == req.secret = "" \/ req.header # req.secret

\* expectedSecret && secret !== expectedSecret (update/route.ts line 27,
\* part_006 line 94)
UnauthorizedWhenSecretSet(req) == req.secret # "" /\ req.header # req.secret

\* the handler has read the request
LaReceived(op, req) ==
  [IdleLa EXCEPT !.op = op, !.secret = req.secret, !.header = req.header, !.aid = req.aid,
                 !.tok = req.tok, !.st = req.st, !.player = req.player]

\* `return NextResponse.json(..., {status})`
LaReturned(r, status) == [r EXCEPT !.pc = "done", !.status = status]

\* process.env.ONESIGNAL_APP_ID and ONESIGNAL_REST_API_KEY are set
HasCredentials == env["ONESIGNAL_APP_ID"] /\ env["ONESIGNAL_REST_API_KEY"]

\* incoming.contentState || {soc: 85, ...} (update/route.ts lines 49-54)
UpdateState(st) == IF st = NoState THEN DefaultUpdateState ELSE st

\* start: POST up to `await fetch` of the provider (start/route.ts lines 7-74)
LaStartPOST(req) ==
  /\ la.pc = "idle"
  /\ LET r == LaReceived("start", req) IN
     la' = IF Unauthorized(req) THEN LaReturned(r, 401)
           ELSE IF req.aid = "" \/ req.tok = "" \/ req.st = NoState THEN LaReturned(r, 400)
           ELSE IF ~HasCredentials THEN LaReturned(r, 500)
           ELSE IF req.player = "" THEN LaReturned(r, 400)
           ELSE [r EXCEPT !.pc = "fetch"]
  /\ UNCHANGED <<now, cronVars, storeDraft, env, osCall, signerVars, nonSignerVars>>

\* end: POST up to `await fetch` of the provider (end/route.ts lines 7-59)
LaEndPOST(req) ==
  /\ la.pc = "idle"
  /\ LET r == LaReceived("end", req) IN
     la' = IF Unauthorized(req) THEN LaReturned(r, 401)
           ELSE IF req.aid = "" THEN LaReturned(r, 400)
           ELSE IF ~HasCredentials THEN LaReturned(r, 500)
           ELSE [r EXCEPT !.pc = "fetch"]
  /\ UNCHANGED <<now, cronVars, storeDraft, env, osCall, signerVars, nonSignerVars>>

\* start, end: fetch resolves with a response, up to `await response.json()`
\* (start/route.ts lines 54-76, end/route.ts lines 39-63)
LaResponds(status) ==
  /\ la.pc = "fetch"
  /\ la' = [la EXCEPT !.pc = "json", !.status = status]
  /\ UNCHANGED <<now, cronVars, storeDraft, env, osCall, signerVars, nonSignerVars>>

\* start, end: fetch rejects: the outer catch answers 500
\* (start/route.ts lines 155-161, end/route.ts lines 168-174)
LaFetchThrows ==
  /\ la.pc = "fetch"
  /\ la' = LaReturned(la, 500)
  /\ UNCHANGED <<now, cronVars, storeDraft, env, osCall, signerVars, nonSignerVars>>

\* start: response.json() settles; a response that is not ok is passed on, an
\* ok one stores the session and goes on to the tagging (lines 76-129)
LaStartReadsBody(parses) ==
  /\ la.op = "start"
  /\ la.pc = "json"
  /\ IF ~parses
     THEN la' = LaReturned(la, 500) /\ UNCHANGED memVars
     ELSE IF ~ResponseOk(la.status)
     THEN la' = LaReturned(la, la.status) /\ UNCHANGED memVars
     ELSE /\ la' = [la EXCEPT !.pc = "tag", !.ok = TRUE]
          /\ sessions' = Put(sessions, la.aid, Session(la.aid, la.player, la.tok, la.st, now))
          /\ memCall' = [fn |-> "storeActivity", aid |-> la.aid, t |-> now, pl |-> la.player,
                         tok |-> la.tok, st |-> la.st]
  /\ UNCHANGED <<now, cronVars, storeDraft, env, osCall, signerVars, kvVars>>

\* end: response.json() settles; a response that is not ok is passed on, an ok
\* one removes the session and goes on to the tag removal (lines 63-100);
\* without meta.playerId there is no tag removal (lines 79, 162-166)
LaEndReadsBody(parses) ==
  /\ la.op = "end"
  /\ la.pc = "json"
  /\ IF ~parses
     THEN la' = LaReturned(la, 500) /\ UNCHANGED memVars
     ELSE IF ~ResponseOk(la.status)
     THEN la' = LaReturned(la, la.status) /\ UNCHANGED memVars
     ELSE /\ la' = IF la.player = "" THEN LaReturned([la EXCEPT !.ok = TRUE], 200)
                   ELSE [la EXCEPT !.pc = "tag", !.ok = TRUE]
          /\ sessions' = Drop(sessions, la.aid)
          /\ memCall' = [fn |-> "removeActivity", aid |-> la.aid, t |-> now,
                         removed |-> la.aid \in DOMAIN sessions]
  /\ UNCHANGED <<now, cronVars, storeDraft, env, osCall, signerVars, kvVars>>

\* start, end: the tagging settles, inside its own try/catch, and the handler
\* answers success (start/route.ts lines 107-153, end/route.ts lines 79-166)
LaTagSettles(outcome) ==
  /\ la.pc = "tag"
  /\ la' = LaReturned([la EXCEPT !.tag = outcome], 200)
  /\ UNCHANGED <<now, cronVars, storeDraft, env, osCall, signerVars, nonSignerVars>>

\* update: POST up to `await callOneSignal('update', payload)`, which runs to
\* its first await (update/route.ts lines 19-61)
LaUpdatePOST(req) ==
  /\ la.pc = "idle"
  /\ osCall.pc = "idle"
  /\ LET r == LaReceived("update", req) IN
     IF UnauthorizedWhenSecretSet(req)
     THEN la' = LaReturned(r, 401) /\ UNCHANGED osCall
     ELSE IF req.aid = ""
     THEN la' = LaReturned(r, 400) /\ UNCHANGED osCall
     ELSE /\ la' = [r EXCEPT !.pc = "call"]
          /\ osCall' = Called("update", [activityId |-> req.aid, state |-> UpdateState(req.st),
                                         pushToken |-> ""])
  /\ UNCHANGED <<now, cronVars, storeDraft, env, signerVars, nonSignerVars>>

\* draft of end: POST up to the first await: the tag removal when there is a
\* playerId and credentials, else callOneSignal('end', payload)
\* (part_006 lines 86-165)
LaEndDraftPOST(req) ==
  /\ la.pc = "idle"
  /\ osCall.pc = "idle"
  /\ LET r == LaReceived("endDraft", req) IN
     IF UnauthorizedWhenSecretSet(req)
     THEN la' = LaReturned(r, 401) /\ UNCHANGED osCall
     ELSE IF req.aid = ""
     THEN la' = LaReturned(r, 400) /\ UNCHANGED osCall
     ELSE IF req.player # "" /\ HasCredentials
     THEN la' = [r EXCEPT !.pc = "tagFirst"] /\ UNCHANGED osCall
     ELSE /\ la' = [r EXCEPT !.pc = "call"]
          /\ osCall' = Called("end", [activityId |-> req.aid, state |-> NoState, pushToken |-> ""])
  /\ UNCHANGED <<now, cronVars, storeDraft, env, signerVars, nonSignerVars>>

\* draft of end: the tag removal settles, inside its try/catch, and the
\* handler goes on to callOneSignal('end', payload) (part_006 lines 125-165)
LaEndDraftTagSettles(outcome) ==
  /\ la.pc = "tagFirst"
  /\ osCall.pc = "idle"
  /\ la' = [la EXCEPT !.pc = "call", !.tag = outcome]
  /\ osCall' = Called("end", [activityId |-> la.aid, state |-> NoState, pushToken |-> ""])
  /\ UNCHANGED <<now, cronVars, storeDraft, env, signerVars, nonSignerVars>>

\* update, draft of end: callOneSignal has returned; on result.ok the store
\* is updated (update/route.ts lines 61-79) or the session removed
\* (part_006 lines 165-175); the status is result.status
LaCallReturns ==
  /\ la.pc = "call"
  /\ osCall.pc = "done"
  /\ osCall' = IdleCall
  /\ la' = LaReturned([la EXCEPT !.ok = osCall.result.ok], osCall.result.status)
  /\ IF ~osCall.result.ok
     THEN UNCHANGED memVars
     ELSE IF la.op = "update"
     THEN /\ sessions' = UpdatedSessions(la.aid, UpdateState(la.st))
          /\ memCall' = [fn |-> "updateActivityState", aid |-> la.aid, t |-> now,
                         st |-> UpdateState(la.st),
                         existed |-> la.aid \in DOMAIN sessions,
                         ret |-> la.aid \in DOMAIN sessions,
                         unchanged |-> sessions' = sessions]
     ELSE /\ sessions' = Drop(sessions, la.aid)
          /\ memCall' = [fn |-> "removeActivity", aid |-> la.aid, t |-> now,
                         removed |-> la.aid \in DOMAIN sessions]
  /\ UNCHANGED <<now, cronVars, storeDraft, env, signerVars, kvVars>>

\* the response has been sent
LaEnds ==
  /\ la.pc = "done"
  /\ la' = IdleLa
  /\ UNCHANGED <<now, cronVars, storeDraft, env, osCall, signerVars, nonSignerVars>>

\* the endpoints one tick after the sessions were stored, over a store that
\* holds any of the sessions, with or without the provider's credentials
LaInit ==
  /\ now = 1
  /\ storeDraft = "memory"
  /\ \E held \in SUBSET Acts :
       sessions = [a \in held |-> Session(a, "P1", "T1", Charging, 0)]
  /\ memCall = [fn |-> "none"]
  /\ kvData = Empty
  /\ kvIndex = {}
  /\ proc = [p \in Procs |-> IdleProc]
  /\ cron = IdleCron("none")
  /\ lastErrorAt = [r \in Routes |-> -1]
  /\ env \in {e \in [EnvNames -> BOOLEAN] :
                e["APNS_KEY_ID"] /\ e["APNS_TEAM_ID"] /\ e["APNS_BUNDLE_ID"]}
  /\ osCall = IdleCall
  /\ la = IdleLa
  /\ apnsKey = "absent"
  /\ jwtToken = 0
  /\ jwtTokenExpiry = 0
  /\ jwtTokenPromise = 0
  /\ promises = <<>>
  /\ caller = [c \in Callers |-> IdleCaller]

LaNext ==
  \/ \E req \in LaRequests : LaStartPOST(req)
  \/ \E req \in LaRequests : LaUpdatePOST(req)
  \/ \E req \in LaRequests : LaEndPOST(req)
  \/ \E req \in LaRequests : LaEndDraftPOST(req)
  \/ \E status \in ProviderStatuses : LaResponds(status)
  \/ LaFetchThrows
  \/ \E parses \in BOOLEAN : LaStartReadsBody(parses)
  \/ \E parses \in BOOLEAN : LaEndReadsBody(parses)
  \/ \E outcome \in AuxOutcomes : LaTagSettles(outcome)
  \/ \E outcome \in AuxOutcomes : LaEndDraftTagSettles(outcome)
  \/ \E status \in ProviderStatuses : CallResponds(status)
  \/ CallFetchThrows
  \/ \E text \in ProviderTexts : CallReadsBody(text)
  \/ LaCallReturns
  \/ LaEnds

LaSpec == LaInit /\ [][LaNext]_vars


\* a request that carries another X-PETL-Secret header than the configured
\* PETL_SERVER_SECRET
LaMismatch(r) == r.op # "none" /\ r.secret # "" /\ r.header # r.secret

C34_Original ==
  (/\ la.op \in {"end", "endDraft"}
   /\ la.pc = "done"
   /\ la.secret # ""
   /\ la.header = la.secret
   /\ la.aid # "")
  => la.aid \notin DOMAIN sessions


PageAnswers ==
  [kind : {"refused", "threw"}, found : {{}}] \cup [kind : {"empty"}, found : {{}}]
    \cup [kind : {"players"}, found : SUBSET Acts]

\* la_push_token of the player tagged with activity a
DirectoryToken(a) == IF a = "A1" THEN "T1" ELSE "short"

\* lines 381-393: the counts and the response
DirectorySummary(cr) ==
  LET ok == {a \in DOMAIN cr.results : cr.results[a].success} IN
  [cr EXCEPT !.pc = "done", !.status = 200,
             !.summary = [NoSummary EXCEPT !.successful = Cardinality(ok),
                                           !.failed = Cardinality(DOMAIN cr.results \ ok),
                                           !.onesignalCount = Cardinality(ok)]]

\* the end of the `while (hasMore)` loop: the filter (lines 195-214), the
\* response for no active player (lines 225-241), else the loop over them
DirectoryListed(cr) ==
  IF cr.todo = {} THEN Responded(cr, 200) ELSE [cr EXCEPT !.pc = "loop"]

\* updateResults.push(r), then the next player or the summary
DirectoryRecorded(cr, r) ==
  LET rest == cr.todo \ {cr.cur}
      next == [cr EXCEPT !.results = Put(@, cr.cur, r), !.todo = rest, !.pc = "loop",
                         !.calls[cr.cur].recorded = @ + 1] IN
  IF rest = {} THEN DirectorySummary(next) ELSE next

\* GET up to the first `await fetch` of the directory (lines 115-153)
CronDirectoryGET(req) ==
  /\ cron.draft = "directory"
  /\ cron.pc = "idle"
  /\ cron' = IF Rejects(req) THEN Responded(Triggered(cron, req), 401)
             ELSE IF ~req.creds
             THEN Responded([Triggered(cron, req) EXCEPT !.creds = FALSE], 500)
             ELSE [Triggered(cron, req) EXCEPT !.pc = "page", !.t0 = now]
  /\ UNCHANGED <<now, lastErrorAt, storeDraft, extVars, signerVars, nonSignerVars>>

\* a page request that goes on asking whatever the offset
PageAnsweredUnbounded(cr, ans) ==
  IF ans.kind = "threw" THEN Responded(cr, 500)
  ELSE IF ans.kind \in {"refused", "empty"} THEN DirectoryListed(cr)
  ELSE [cr EXCEPT !.todo = @ \cup ans.found, !.offset = @ + 100, !.pages = @ + 1]

\* one round of `while (hasMore)` after its fetch (lines 153-181): a response
\* that is not ok breaks the loop, an empty page ends it, a page with players
\* is added and ends it when the offset reaches 1000; a request that throws
\* goes to the outer catch (lines 395-404)
PageAnswered(cr, ans) ==
  IF ans.kind = "threw" THEN Responded(cr, 500)
  ELSE IF ans.kind \in {"refused", "empty"} THEN DirectoryListed(cr)
  ELSE LET more == [cr EXCEPT !.todo = @ \cup ans.found, !.offset = @ + 100, !.pages = @ + 1] IN
       IF more.offset >= 1000 THEN DirectoryListed(more) ELSE more

CronDirectoryPage(ans) ==
  /\ cron.draft = "directory"
  /\ cron.pc = "page"
  /\ cron.pages < MaxPages
  /\ cron' = PageAnswered(cron, ans)
  /\ UNCHANGED <<now, lastErrorAt, storeDraft, extVars, signerVars, nonSignerVars>>

\* one round of `for (const player of activePlayers)` up to its fetch (lines
\* 247-342): a push token shorter than 32 characters throws before the fetch
\* and the catch records the failure (lines 309-314, 369-377)
CronDirectoryPlayer(a) ==
  /\ cron.draft = "directory"
  /\ cron.pc = "loop"
  /\ a \in cron.todo
  /\ LET cr == [cron EXCEPT !.cur = a] IN
     cron' = IF TokLen(DirectoryToken(a)) < 32
             THEN DirectoryRecorded(cr, Failure("update"))
             ELSE [cr EXCEPT !.pc = "provider", !.calls[a].update = @ + 1]
  /\ UNCHANGED <<now, lastErrorAt, storeDraft, extVars, signerVars, nonSignerVars>>

\* the provider has answered the update, or the request has thrown (lines 335-378)
CronDirectoryResponds(outcome) ==
  /\ cron.draft = "directory"
  /\ cron.pc = "provider"
  /\ cron' = DirectoryRecorded(cron, IF outcome = "ok" THEN Success("onesignal", "update")
                                     ELSE Failure("update"))
  /\ UNCHANGED <<now, lastErrorAt, storeDraft, extVars, signerVars, nonSignerVars>>

\* one invocation of the dual-channel handler over any store, 10 minutes or
\* MaxNow ticks after the oldest session was written, or of the directory
\* handler
TermInit ==
  /\ now \in {2, MaxNow}
  /\ \E d \in {"dual", "directory"}, f \in InitialStores(now) :
        /\ cron = IdleCron(d)
        /\ kvData = IF d = "dual" THEN f ELSE Empty
        /\ kvIndex = IF d = "dual" THEN DOMAIN f ELSE {}
        /\ apnsKey \in IF d = "dual" THEN KeyKinds ELSE {"absent"}
  /\ storeDraft = "kv"
  /\ sessions = Empty
  /\ lastErrorAt = [r \in Routes |-> -1]
  /\ env = FullEnv
  /\ osCall = IdleCall
  /\ la = IdleLa
  /\ memCall = [fn |-> "none"]
  /\ proc = [p \in Procs |-> IdleProc]
  /\ jwtToken = 0
  /\ jwtTokenExpiry = 0
  /\ jwtTokenPromise = 0
  /\ promises = <<>>
  /\ caller = [c \in Callers |-> IdleCaller]

\* the steps that follow an await of the handler: an external call has
\* returned or failed, or a settled promise is resumed
TermProgress ==
  \/ \E ok \in BOOLEAN : KvSmembers("cron", ok)
  \/ \E a \in Acts, ok \in BOOLEAN : KvScan("cron", a, ok)
  \/ \E ok \in BOOLEAN : KvDel("cron", ok)
  \/ \E ok \in BOOLEAN : KvSrem("cron", ok)
  \/ KvScanReturns("cron")
  \/ CronDualListed
  \/ \E a \in Acts : CronDualSession(a)
  \/ \E p \in 1..MaxSignOps, ok \in BOOLEAN : ImportKeySettles(p, ok)
  \/ \E p \in 1..MaxSignOps, ok \in BOOLEAN : SignSettles(p, ok)
  \/ CallerResumes(CronCaller)
  \/ CronDirectSigned
  \/ \E ok \in BOOLEAN : CronDirectResponds(ok)
  \/ \E outcome \in AuxOutcomes : CronWakeResponds(outcome)
  \/ \E ok \in BOOLEAN : CronProviderResponds(ok)
  \/ \E outcome \in AuxOutcomes : CronSilentResponds(outcome)
  \/ \E ans \in PageAnswers : CronDirectoryPage(ans)
  \/ \E a \in Acts : CronDirectoryPlayer(a)
  \/ \E outcome \in AuxOutcomes : CronDirectoryResponds(outcome)

TermNext ==
  \/ \E req \in Requests : CronDualGET(req)
  \/ \E req \in Requests : CronDirectoryGET(req)
  \/ TermProgress

\* every external call returns or fails, and the event loop runs the
\* continuation: weak fairness on the steps that follow an await
TermSpec == TermInit /\ [][TermNext]_vars /\ WF_vars(TermProgress)

====
